---- MODULE Spec2Model ----
(***************************************************************************)
(* Provider discovery and routing engine of the GitHub issue analyzer      *)
(* (backend/app/llm/providers.py, backend/app/llm/router.py and the        *)
(* /llm/providers endpoint of backend/app/main.py).                        *)
(*                                                                         *)
(* Strings are atomic in TLC, so every string conversion of the source     *)
(* (regular expressions on key names, placeholder patterns, the id         *)
(* sanitiser, string ordering) is a table over the finite universe of      *)
(* strings used here, each row computed from the source expression.        *)
(***************************************************************************)
EXTENDS Integers, Sequences, FiniteSets, TLC

VARIABLES
    env,                  \* os.environ: sequence of <<key, value>> in iteration order
    now,                  \* time.time()
    CANDIDATE_MODELS,     \* module global, mutated by discover_providers (append)
    LAST_DISCOVERED,      \* _LAST_DISCOVERED: sequence of LLMProvider objects
    LAST_DISCOVERY_TIME,  \* _LAST_DISCOVERY_TIME
    VERIFIED_MODELS,      \* _VERIFIED_MODELS: id -> status
    listing,              \* the response of the GET /llm/providers served in the last step
    rq,                   \* the route requests (analyze_with_provider), by request
    routes,               \* number of route requests started so far
    api,                  \* the POST /analyze requests (analyze_issue), by request
    analysis_cache,       \* analysis_cache of main.py: cache key -> stored response
    inv                   \* invocations of a function studied on its own, by invocation

vars == <<env, now, CANDIDATE_MODELS, LAST_DISCOVERED, LAST_DISCOVERY_TIME,
          VERIFIED_MODELS, listing, rq, routes, api, analysis_cache, inv>>

-----------------------------------------------------------------------------
(* Bounds of the model *)

MaxRoutes == 2          \* route requests per behaviour
MaxTicks == 2           \* clock steps per behaviour
TickStep == 1800        \* seconds per clock step
MaxEnvVars == 2         \* environment variables of a scanned environment
MaxTasks == 3           \* tasks of a discovery cycle among which one may raise

-----------------------------------------------------------------------------
(* Program constants *)

DISCOVERY_CACHE_TTL == 3600
CONCURRENCY_LIMIT == 5
DefaultLatency == 1500
max_fallback_attempts == 2
NoLatency == -1         \* latency_ms = None
None == "None"          \* Python None for strings

AVAILABLE == "available"
UNAVAILABLE == "unavailable"
RATE_LIMITED == "rate_limited"
ERROR == "error"
ASSUMED == "assumed"

AvailabilityStatus == {AVAILABLE, UNAVAILABLE, RATE_LIMITED, ERROR, ASSUMED}

ProviderTypes == {"gemini", "openai", "anthropic", "huggingface"}

CatalogInit ==
    [ gemini |-> << <<"gemini-flash-latest", "Gemini Flash (Latest)">>,
                    <<"gemini-2.5-flash", "Gemini 2.5 Flash">>,
                    <<"gemini-2.5-pro", "Gemini 2.5 Pro">> >>,
      openai |-> << <<"gpt-4o", "GPT-4o">>,
                    <<"gpt-4o-mini", "GPT-4o Mini">>,
                    <<"o1-mini", "o1 Mini">>,
                    <<"gpt-4.5-preview", "GPT-4.5 Preview">> >>,
      anthropic |-> << <<"claude-3-5-sonnet-20241022", "Claude 3.5 Sonnet">>,
                       <<"claude-3-opus-20240229", "Claude 3 Opus">>,
                       <<"claude-3-haiku-20240307", "Claude 3 Haiku">> >>,
      huggingface |-> << <<"deepseek-ai/DeepSeek-R1", "DeepSeek R1">>,
                         <<"deepseek-ai/DeepSeek-R1-Distill-Llama-8B", "DeepSeek R1 Distill">>,
                         <<"meta-llama/Llama-3.1-8B-Instruct", "Llama 3.1 8B">> >> ]

\* ESTIMATED_LATENCY_MS.get(model_id, 1500)
EstimatedLatency(model_id) ==
    CASE model_id = "gemini-flash-latest" -> 800
      [] model_id = "gemini-2.5-flash" -> 900
      [] model_id = "gemini-2.5-pro" -> 2500
      [] model_id = "gemini-2.0-flash-lite" -> 600
      [] model_id = "gemini-2.0-flash" -> 700
      [] model_id = "gpt-4o" -> 1500
      [] model_id = "gpt-4o-mini" -> 800
      [] model_id = "o1-mini" -> 3000
      [] model_id = "gpt-4.5-preview" -> 2000
      [] model_id = "claude-3-5-sonnet-20241022" -> 1800
      [] model_id = "claude-3-opus-20240229" -> 4000
      [] model_id = "claude-3-haiku-20240307" -> 600
      [] model_id = "deepseek-ai/DeepSeek-R1" -> 5000
      [] model_id = "deepseek-ai/DeepSeek-R1-Distill-Llama-8B" -> 2000
      [] model_id = "meta-llama/Llama-3.1-8B-Instruct" -> 1500
      [] OTHER -> DefaultLatency

-----------------------------------------------------------------------------
(* String tables *)

\* model_id.split("/")[-1].replace(".", "").replace("-", "_").lower()[:20]
SafeModel(model_id) ==
    CASE model_id = "gemini-flash-latest" -> "gemini_flash_latest"
      [] model_id = "gemini-2.5-flash" -> "gemini_25_flash"
      [] model_id = "models/gemini-2.5-flash" -> "gemini_25_flash"
      [] model_id = "gemini-2.5-pro" -> "gemini_25_pro"
      [] model_id = "gemini-2.0-flash" -> "gemini_20_flash"
      [] model_id = "gpt-4o" -> "gpt_4o"
      [] model_id = "gpt-4o-mini" -> "gpt_4o_mini"
      [] model_id = "o1-mini" -> "o1_mini"
      [] model_id = "gpt-4.5-preview" -> "gpt_45_preview"
      [] model_id = "claude-3-5-sonnet-20241022" -> "claude_3_5_sonnet_20"
      [] model_id = "claude-3-opus-20240229" -> "claude_3_opus_202402"
      [] model_id = "claude-3-haiku-20240307" -> "claude_3_haiku_20240"
      [] model_id = "deepseek-ai/DeepSeek-R1" -> "deepseek_r1"
      [] model_id = "deepseek-ai/DeepSeek-R1-Distill-Llama-8B" -> "deepseek_r1_distill_"
      [] model_id = "meta-llama/Llama-3.1-8B-Instruct" -> "llama_31_8b_instruct"
      [] model_id = "unsloth/Llama-3.1-8B-Instruct" -> "llama_31_8b_instruct"

\* f"{ptype}_{pnum}_{safe_model}": the three parts determine the string
MakeId(ptype, pnum, model_id) == <<ptype, pnum, SafeModel(model_id)>>

\* the keyword heuristics of _infer_speed on model_name.lower()
NameSpeed(model_id) ==
    CASE model_id \in {"deepseek-ai/DeepSeek-R1", "deepseek-ai/DeepSeek-R1-Distill-Llama-8B",
                       "o1-mini", "claude-3-opus-20240229"} -> "Reasoning"
      [] model_id \in {"gemini-flash-latest", "gemini-2.5-flash", "models/gemini-2.5-flash",
                       "gemini-2.5-pro", "gemini-2.0-flash", "gpt-4o-mini",
                       "claude-3-haiku-20240307"} -> "Fast"
      [] model_id \in {"gpt-4o", "claude-3-5-sonnet-20241022"} -> "Medium"
      [] OTHER -> "Standard"

\* variant of _infer_speed whose thresholds belong to the faster category;
\* C31_SpeedThresholds tells it from the code's function
InferSpeedInclusive(model_id, latency_ms) ==
    IF latency_ms # NoLatency
    THEN IF latency_ms <= 1000 THEN "Fast"
         ELSE IF latency_ms <= 3000 THEN "Medium" ELSE "Slow"
    ELSE NameSpeed(model_id)

InferSpeed(model_id, latency_ms) ==
    IF latency_ms # NoLatency
    THEN IF latency_ms < 1000 THEN "Fast"
         ELSE IF latency_ms < 3000 THEN "Medium" ELSE "Slow"
    ELSE NameSpeed(model_id)

\* re.sub(r"^(google|meta-llama|deepseek-ai|microsoft|mistralai)/", "", model_name),
\* then "gemini-flash" in clean -> "Gemini Flash (Latest)"
PrettifyLabel(model_id, label) ==
    IF label = "Custom Model"
    THEN CASE model_id = "meta-llama/Llama-3.1-8B-Instruct" -> "Llama-3.1-8B-Instruct"
           [] model_id = "deepseek-ai/DeepSeek-R1" -> "DeepSeek-R1"
           [] model_id = "gemini-flash-latest" -> "Gemini Flash (Latest)"
           [] OTHER -> model_id
    ELSE label

\* position of a string in Python's string order, over the strings compared here
StrRank(s) ==
    CASE s = "Claude 3 Haiku" -> 1
      [] s = "Claude 3 Opus" -> 2
      [] s = "Claude 3.5 Sonnet" -> 3
      [] s = "DeepSeek R1" -> 4
      [] s = "DeepSeek R1 Distill" -> 5
      [] s = "GPT-4.5 Preview" -> 6
      [] s = "GPT-4o" -> 7
      [] s = "GPT-4o Mini" -> 8
      [] s = "Gemini 2.5 Flash" -> 9
      [] s = "Gemini 2.5 Pro" -> 10
      [] s = "Gemini Flash (Latest)" -> 11
      [] s = "Llama 3.1 8B" -> 12
      [] s = "anthropic" -> 13
      [] s = "gemini" -> 14
      [] s = "gemini-2.0-flash" -> 15
      [] s = "huggingface" -> 16
      [] s = "models/gemini-2.5-flash" -> 17
      [] s = "o1 Mini" -> 18
      [] s = "openai" -> 19
      [] s = "unsloth/Llama-3.1-8B-Instruct" -> 20

\* len(value.lower().strip())
StrLen(value) ==
    CASE value = "" -> 0
      [] value = "short" -> 5
      [] value = "validlongkeyvalue123" -> 20
      [] value = "hf_validtoken456" -> 16
      [] value = "sk-validopenaikey123" -> 20
      [] value = "sk-ant-validkey123456" -> 21
      [] value = "anothervalidkey789" -> 18
      [] value = "YOUR_API_KEY_HERE" -> 17
      [] value = "test_api_key_for_testing" -> 24
      [] value = "your_api_key_here" -> 17
      [] value = "unsloth/Llama-3.1-8B-Instruct" -> 29
      [] value = "models/gemini-2.5-flash" -> 23
      [] value = "gemini-2.0-flash" -> 16

\* any(re.match(p, val) for p in PLACEHOLDER_PATTERNS), val = value.lower().strip()
MatchesPlaceholderPattern(value) ==
    value \in {"test_api_key_for_testing", "your_api_key_here", "YOUR_API_KEY_HERE"}

\* variant of _is_placeholder without the length test; C22_RejectedNeverRegistered
\* tells it from the code's function
IsPlaceholderPatternOnly(value) ==
    IF value = "" THEN TRUE
    ELSE MatchesPlaceholderPattern(value)

IsPlaceholder(value) ==
    IF value = "" THEN TRUE
    ELSE IF StrLen(value) < 8 THEN TRUE
    ELSE MatchesPlaceholderPattern(value)

\* re.compile(rf"^{prefix}_API_KEY(_(\\d+))?$", re.IGNORECASE).match(key):
\* "nomatch", or the text of group 2 (None when the key has no suffix).  In the raw
\* f-string \\d is a literal backslash followed by d, so a digit suffix never matches.
ApiKeyMatch(prefix, key) ==
    CASE prefix = "GEMINI" /\ key = "GEMINI_API_KEY" -> None
      [] prefix = "OPENAI" /\ key = "OPENAI_API_KEY" -> None
      [] prefix = "ANTHROPIC" /\ key = "ANTHROPIC_API_KEY" -> None
      [] prefix = "CLAUDE" /\ key = "CLAUDE_API_KEY" -> None
      [] prefix = "HF" /\ key = "HF_API_KEY" -> None
      [] prefix = "HUGGINGFACE" /\ key = "HUGGINGFACE_API_KEY" -> None
      [] OTHER -> "nomatch"

\* re.compile(rf"^{prefix}_TOKEN$", re.IGNORECASE).match(key)
TokenMatch(prefix, key) ==
    \/ prefix = "HF" /\ key = "HF_TOKEN"
    \/ prefix = "HUGGINGFACE" /\ key = "HUGGINGFACE_TOKEN"
    \/ prefix = "GEMINI" /\ key = "GEMINI_TOKEN"
    \/ prefix = "OPENAI" /\ key = "OPENAI_TOKEN"
    \/ prefix = "ANTHROPIC" /\ key = "ANTHROPIC_TOKEN"
    \/ prefix = "CLAUDE" /\ key = "CLAUDE_TOKEN"

-----------------------------------------------------------------------------
(* Sequence helpers *)

Range(s) == {s[i] : i \in DOMAIN s}

RECURSIVE SelectIdx(_, _, _)
\* the subsequence of s at the indices in keep, order kept
SelectIdx(s, keep, i) ==
    IF i > Len(s) THEN <<>>
    ELSE (IF i \in keep THEN <<s[i]>> ELSE <<>>) \o SelectIdx(s, keep, i + 1)

Min(a, b) == IF a < b THEN a ELSE b

RECURSIVE TupleLess(_, _)
\* Python's tuple comparison a < b, for tuples of equal length
TupleLess(a, b) ==
    IF a = <<>> THEN FALSE
    ELSE IF a[1] # b[1] THEN a[1] < b[1]
    ELSE TupleLess(Tail(a), Tail(b))

RECURSIVE Insert(_, _)
\* the pair x = <<key, item>> placed after every pair of the sorted s whose key is
\* not greater than its own
Insert(s, x) ==
    IF s = <<>> THEN <<x>>
    ELSE IF TupleLess(x[1], s[1][1]) THEN <<x>> \o s
    ELSE <<s[1]>> \o Insert(Tail(s), x)

RECURSIVE SortPairs(_)
SortPairs(s) ==
    IF s = <<>> THEN <<>>
    ELSE Insert(SortPairs(SubSeq(s, 1, Len(s) - 1)), s[Len(s)])

\* list.sort(key=...) / sorted(..., key=...): a stable sort; keys[i] is the key of s[i]
StableSort(s, keys) ==
    LET sorted == SortPairs([i \in DOMAIN s |-> <<keys[i], s[i]>>])
    IN  [i \in DOMAIN s |-> sorted[i][2]]

-----------------------------------------------------------------------------
(* Registry: the credential scan *)

\* os.getenv(name)
GetEnv(e, name) ==
    IF \E i \in DOMAIN e : e[i][1] = name
    THEN e[CHOOSE i \in DOMAIN e : e[i][1] = name][2]
    ELSE None

Truthy(v) == v # None /\ v # ""

SeenNums(results) == {results[i][1] : i \in DOMAIN results}

\* one iteration of the inner loop of _scan_env_for_keys
ScanStep(prefix, item, results) ==
    LET key == item[1]
        value == item[2]
        m == ApiKeyMatch(prefix, key)
        num == 1   \* int(suffix) if suffix else 1: group 2 is None on every match
    IN  IF IsPlaceholder(value) THEN results
        ELSE IF m # "nomatch" /\ Truthy(value)
        THEN IF num \notin SeenNums(results) THEN Append(results, <<num, value>>) ELSE results
        ELSE IF TokenMatch(prefix, key) /\ Truthy(value)
        THEN IF 1 \notin SeenNums(results) THEN Append(results, <<1, value>>) ELSE results
        ELSE results

RECURSIVE ScanLoop(_, _, _, _, _)
ScanLoop(e, prefixes, pi, ei, results) ==
    IF pi > Len(prefixes) THEN results
    ELSE IF ei > Len(e) THEN ScanLoop(e, prefixes, pi + 1, 1, results)
    ELSE ScanLoop(e, prefixes, pi, ei + 1, ScanStep(prefixes[pi], e[ei], results))

ScanEnvForKeys(e, prefixes) ==
    LET results == ScanLoop(e, prefixes, 1, 1, <<>>)
    IN  StableSort(results, [i \in DOMAIN results |-> <<results[i][1]>>])

ConfigsOf(ptype, keys) ==
    [i \in DOMAIN keys |-> [type |-> ptype, num |-> keys[i][1], key |-> keys[i][2]]]

GetConfiguredKeys(e) ==
    ConfigsOf("gemini", ScanEnvForKeys(e, <<"GEMINI">>))
    \o ConfigsOf("openai", ScanEnvForKeys(e, <<"OPENAI">>))
    \o ConfigsOf("anthropic", ScanEnvForKeys(e, <<"ANTHROPIC", "CLAUDE">>))
    \o ConfigsOf("huggingface", ScanEnvForKeys(e, <<"HF", "HUGGINGFACE">>))

\* the per-type override variable read by discover_providers and get_all_providers
EnvModel(e, ptype) ==
    CASE ptype = "gemini" -> GetEnv(e, "MODEL_NAME")
      [] ptype = "openai" -> GetEnv(e, "OPENAI_MODEL")
      [] ptype = "anthropic" -> GetEnv(e, "ANTHROPIC_MODEL")
      [] ptype = "huggingface" -> GetEnv(e, "HF_MODEL")
      [] OTHER -> None

-----------------------------------------------------------------------------
(* Verifier: building and ranking the entries *)

LLMProvider(id, label, provider, model, api_key, status, latency_ms, speed, error_message) ==
    [id |-> id, label |-> label, provider |-> provider, model |-> model,
     api_key |-> api_key, status |-> status, latency_ms |-> latency_ms,
     speed |-> speed, error_message |-> error_message]

\* label text and its " (Key n)" suffix (0: no suffix)
Label(text, keynum) == <<text, keynum>>

\* variant of _verify_candidate that reports a never-used model as AVAILABLE rather
\* than ASSUMED; C8_GeminiEntryPerModel tells it from the code's function
VerifyCandidateAvailable(config, model_id, model_name, is_multikey, verified) ==
    LET pid == MakeId(config.type, config.num, model_id)
        status == IF pid \in DOMAIN verified THEN verified[pid] ELSE AVAILABLE
        latency_ms == EstimatedLatency(model_id)
    IN  LLMProvider(pid, Label(PrettifyLabel(model_id, model_name), 0), config.type,
                    model_id, config.key, status, latency_ms,
                    InferSpeed(model_id, latency_ms), None)

\* variant of _verify_candidate that does not consult _VERIFIED_MODELS: every entry
\* is ASSUMED; C24_LazyCycle tells it from the code's function
VerifyCandidateForgetful(config, model_id, model_name, is_multikey, verified) ==
    LET pid == MakeId(config.type, config.num, model_id)
        latency_ms == EstimatedLatency(model_id)
        final_label == Label(PrettifyLabel(model_id, model_name),
                             IF is_multikey THEN config.num ELSE 0)
    IN  LLMProvider(pid, final_label, config.type, model_id, config.key, ASSUMED,
                    latency_ms, InferSpeed(model_id, latency_ms), None)

VerifyCandidate(config, model_id, model_name, is_multikey, verified) ==
    LET pid == MakeId(config.type, config.num, model_id)
        known == pid \in DOMAIN verified
        status == IF known THEN verified[pid] ELSE ASSUMED
        error_message ==
            IF known /\ status = RATE_LIMITED THEN "Rate limit hit during previous use"
            ELSE IF known /\ status = UNAVAILABLE THEN "Failed during previous use"
            ELSE None
        latency_ms == EstimatedLatency(model_id)
        final_label == Label(PrettifyLabel(model_id, model_name),
                             IF is_multikey THEN config.num ELSE 0)
    IN  LLMProvider(pid, final_label, config.type, model_id, config.key, status,
                    latency_ms, InferSpeed(model_id, latency_ms), error_message)

AvailabilityOrder(status) ==
    CASE status = AVAILABLE -> 0
      [] status = ASSUMED -> 0
      [] status = RATE_LIMITED -> 1
      [] status = ERROR -> 2
      [] status = UNAVAILABLE -> 3
      [] OTHER -> 3

\* sort_key of discover_providers: (avail, latency, provider, label)
SortKey(p) ==
    <<AvailabilityOrder(p.status),
      IF p.latency_ms # NoLatency THEN p.latency_ms ELSE 99999,
      StrRank(p.provider), StrRank(p.label[1]), p.label[2]>>

IsUsable(p) == p.status \in {AVAILABLE, ASSUMED}

-----------------------------------------------------------------------------
(* Discovery *)

CountType(configs, ptype) == Cardinality({i \in DOMAIN configs : configs[i].type = ptype})

\* candidates of one config: the catalog list of its type, after the override model
\* of the environment was appended to that (module-level) list
CatalogAfter(e, catalog, ptype) ==
    LET candidates == catalog[ptype]
        env_model == EnvModel(e, ptype)
    IN  IF Truthy(env_model) /\ ~(\E i \in DOMAIN candidates : candidates[i][1] = env_model)
        THEN [catalog EXCEPT ![ptype] = Append(candidates, <<env_model, "Custom Model">>)]
        ELSE catalog

RECURSIVE BuildTasks(_, _, _, _, _)
\* the loop over configs of discover_providers: the entries of the tasks, in task
\* order, and the catalog as the loop leaves it
BuildTasks(e, configs, k, catalog, verified) ==
    IF k > Len(configs) THEN [tasks |-> <<>>, catalog |-> catalog]
    ELSE LET config == configs[k]
             cat2 == CatalogAfter(e, catalog, config.type)
             candidates == cat2[config.type]
             is_multikey == CountType(configs, config.type) > 1
             mine == [i \in DOMAIN candidates |->
                        VerifyCandidate(config, candidates[i][1], candidates[i][2],
                                        is_multikey, verified)]
             rest == BuildTasks(e, configs, k + 1, cat2, verified)
         IN  [tasks |-> mine \o rest.tasks, catalog |-> rest.catalog]

\* variant of _verify_candidate's network use in which every task sends a probe, as
\* a task that verified its candidate eagerly would; C28_BatchProbesBounded tells it
\* from the code's
TaskProbesEager(entry) == 1

\* the probes a _verify_candidate task sends while it builds its entry: it calls no
\* client and awaits nothing, the semaphore it is given included
TaskProbes(entry) == 0

\* the tasks of a batch that can have a probe in flight at one moment: nothing
\* acquires the semaphore, so every task that probes
ProbingTasks(tasks) == {k \in DOMAIN tasks : TaskProbes(tasks[k]) > 0}

SortProviders(all_providers) ==
    StableSort(all_providers, [i \in DOMAIN all_providers |-> SortKey(all_providers[i])])

\* variant of the cache check that measures the age of the snapshot from the initial
\* _LAST_DISCOVERY_TIME (0) instead of the stored one; C17_CachedWithinTTL tells it
\* from the code's check
CacheFreshSinceEpoch(force_refresh, last, t, last_time) ==
    ~force_refresh /\ last # <<>> /\ (t - 0 < DISCOVERY_CACHE_TTL)

CacheFresh(force_refresh, last, t, last_time) ==
    ~force_refresh /\ last # <<>> /\ (t - last_time < DISCOVERY_CACHE_TTL)

\* discover_providers from "if not tasks" on; built is what the loop over configs left
GatherAndCache(built, t, last, last_time) ==
    IF built.tasks = <<>>
    THEN [result |-> <<>>, last |-> last, time |-> last_time,
          catalog |-> built.catalog, replaced |-> FALSE]
    ELSE LET all_providers == SortProviders(built.tasks)
         IN  [result |-> all_providers, last |-> all_providers, time |-> t,
              catalog |-> built.catalog, replaced |-> TRUE]

\* variant of discover_providers that serves a snapshot younger than the TTL even
\* when a refresh is forced; C18_RefreshRebuilds tells it from the code's function
DiscoverProvidersCached(force_refresh, e, t, catalog, last, last_time, verified) ==
    IF CacheFresh(FALSE, last, t, last_time)
    THEN [result |-> last, last |-> last, time |-> last_time, catalog |-> catalog,
          replaced |-> FALSE]
    ELSE GatherAndCache(BuildTasks(e, GetConfiguredKeys(e), 1, catalog, verified),
                        t, last, last_time)

\* discover_providers: what it returns and what it leaves in the globals;
\* replaced tells whether _LAST_DISCOVERED was assigned a new list
DiscoverProviders(force_refresh, e, t, catalog, last, last_time, verified) ==
    IF CacheFresh(force_refresh, last, t, last_time)
    THEN [result |-> last, last |-> last, time |-> last_time, catalog |-> catalog,
          replaced |-> FALSE]
    ELSE GatherAndCache(BuildTasks(e, GetConfiguredKeys(e), 1, catalog, verified),
                        t, last, last_time)

\* the loop over the results of asyncio.gather(*tasks, return_exceptions=True) when
\* task k raised: the exception is logged and no entry is appended for it
GatherFailing(built, k, t, last, last_time) ==
    GatherAndCache([tasks |-> SelectIdx(built.tasks, DOMAIN built.tasks \ {k}, 1),
                    catalog |-> built.catalog],
                   t, last, last_time)

\* discover_providers when its task k raises an exception
DiscoverProvidersTaskFails(k, force_refresh, e, t, catalog, last, last_time, verified) ==
    IF CacheFresh(force_refresh, last, t, last_time)
    THEN [result |-> last, last |-> last, time |-> last_time, catalog |-> catalog,
          replaced |-> FALSE]
    ELSE GatherFailing(BuildTasks(e, GetConfiguredKeys(e), 1, catalog, verified),
                       k, t, last, last_time)

\* the tasks a cycle creates
TaskCount(e, catalog, verified) ==
    Len(BuildTasks(e, GetConfiguredKeys(e), 1, catalog, verified).tasks)

NoId == <<"none", 0, "none">>          \* provider_id = None
NoSuchId == <<"no", 0, "such_id">>      \* an id no entry has

NoObj == [id |-> NoId]

\* the entry get_all_providers builds for one config while nothing was discovered
FallbackEntry(e, catalog, config) ==
    LET first == catalog[config.type][1]
        env_model == EnvModel(e, config.type)
        model_id == IF Truthy(env_model) THEN env_model ELSE first[1]
    IN  LLMProvider(MakeId(config.type, config.num, model_id), Label(first[2], 0),
                    config.type, model_id, config.key, AVAILABLE, NoLatency,
                    "Standard", None)

\* the loop of get_all_providers over configs: "if candidates:" skips a config
FallbackList(e, catalog, configs) ==
    LET skip == {i \in DOMAIN configs : catalog[configs[i].type] = <<>>}
        entries == [i \in DOMAIN configs |->
                      IF i \in skip THEN NoObj ELSE FallbackEntry(e, catalog, configs[i])]
    IN  SelectIdx(entries, DOMAIN configs \ skip, 1)

\* the legacy list get_all_providers builds while nothing was discovered
FallbackProviders(e, catalog) == FallbackList(e, catalog, GetConfiguredKeys(e))

(* A reference to an LLMProvider object: ix > 0 is the object at that position of
   _LAST_DISCOVERED; ix = 0 is an object no global list holds (obj is its value). *)
Deref(ref, last) == IF ref.ix > 0 THEN last[ref.ix] ELSE ref.obj

\* the reference after _LAST_DISCOVERED was assigned a new list: the object lives on,
\* out of the reach of every status patch
Detach(ref, last) == [ix |-> 0, obj |-> Deref(ref, last)]

\* references to the objects of a list built for this call only
FreshRefs(fallback) == [i \in DOMAIN fallback |-> [ix |-> 0, obj |-> fallback[i]]]

GetAllProviders(e, catalog, last) ==
    IF last # <<>>
    THEN [i \in DOMAIN last |-> [ix |-> i, obj |-> NoObj]]
    ELSE FreshRefs(FallbackProviders(e, catalog))

\* the list comprehension of get_available_providers
UsableOf(all_providers, last) ==
    SelectIdx(all_providers,
              {i \in DOMAIN all_providers : IsUsable(Deref(all_providers[i], last))}, 1)

GetAvailableProviders(e, catalog, last) ==
    UsableOf(GetAllProviders(e, catalog, last), last)

NoRef == [ix |-> 0, obj |-> NoObj]

\* the loop of get_provider_by_id: the first entry with the id, or None
FirstRefWithId(all_providers, provider_id, last) ==
    LET hits == {i \in DOMAIN all_providers : Deref(all_providers[i], last).id = provider_id}
    IN  IF hits = {} THEN NoRef
        ELSE all_providers[CHOOSE i \in hits : \A j \in hits : i <= j]

GetProviderById(provider_id, e, catalog, last) ==
    FirstRefWithId(GetAllProviders(e, catalog, last), provider_id, last)

FirstWithId(last, provider_id) ==
    LET hits == {i \in DOMAIN last : last[i].id = provider_id}
    IN  IF hits = {} THEN 0 ELSE CHOOSE i \in hits : \A j \in hits : i <= j

\* variant of update_provider_status that ranks the list again after the patch;
\* C20_PatchFrame tells it from the code's function
UpdateProviderStatusRanked(last, provider_id, status, error_msg) ==
    LET i == FirstWithId(last, provider_id)
    IN  IF i = 0 THEN last
        ELSE SortProviders([last EXCEPT ![i] = [@ EXCEPT !.status = status,
                                                         !.error_message =
                                                             IF error_msg # None
                                                             THEN error_msg ELSE @]])

\* update_provider_status: _LAST_DISCOVERED after the patch
UpdateProviderStatus(last, provider_id, status, error_msg) ==
    LET i == FirstWithId(last, provider_id)
    IN  IF i = 0 THEN last
        ELSE [last EXCEPT ![i] = [@ EXCEPT !.status = status,
                                           !.error_message =
                                               IF error_msg # None THEN error_msg ELSE @]]

\* the value update_provider_status returns
UpdateFound(last, provider_id) == FirstWithId(last, provider_id) # 0

\* variant of the response model that carries every field of the entry, the
\* credential included; C30_ListingHidesSecrets tells it from the code's
ProviderResponseWithKey(p) ==
    [id |-> p.id, label |-> p.label, provider |-> p.provider, model |-> p.model,
     is_available |-> (p.status = AVAILABLE), status |-> p.status,
     latency_ms |-> p.latency_ms, speed |-> p.speed, error_message |-> p.error_message,
     api_key |-> p.api_key]

\* LLMProviderResponse of list_providers (no api_key)
ProviderResponse(p) ==
    [id |-> p.id, label |-> p.label, provider |-> p.provider, model |-> p.model,
     is_available |-> (p.status = AVAILABLE), status |-> p.status,
     latency_ms |-> p.latency_ms, speed |-> p.speed, error_message |-> p.error_message]

-----------------------------------------------------------------------------
(* Backends (the vendor clients, seen from the router) *)

Responses == {"ok", "429", "fail"}

\* what run_<provider> does with the vendor's final response: returns ("ok"), raises
\* LLMRateLimitError ("rate") or raises RuntimeError ("err")
ClientResult(ptype, resp) ==
    IF resp = "ok" THEN "ok"
    ELSE IF resp = "429" /\ ptype \in {"gemini", "huggingface"} THEN "rate"
    ELSE "err"

\* what verify_<provider>, under asyncio.wait_for, gives verify_on_first_use: the
\* clients catch every exception of the probe and return a bool
ProbeResults == {"true", "false", "timeout"}

\* what the vendor does with the probe: answers both steps as asked ("ok"), answers
\* a step with HTTP 429 or a quota error ("429"), fails it otherwise ("bad"), or
\* takes longer than VERIFICATION_TIMEOUT ("timeout")
ProbeResponses == {"ok", "429", "bad", "timeout"}

\* verify_model of the client, under asyncio.wait_for: True when both steps pass;
\* False on a 429 as on any other failure, since every exception of the probe is
\* caught inside the client
VerifyModel(ptype, resp) ==
    CASE resp = "ok" -> "true"
      [] resp = "timeout" -> "timeout"
      [] OTHER -> "false"

\* variant of the outcome of a probe in verify_on_first_use that takes a timeout for
\* an ordinary failed probe; C26_ProbeTimeout tells it from the code's
ProbeStatusNoTimeout(result) ==
    [status |-> IF result = "true" THEN AVAILABLE ELSE UNAVAILABLE, detail |-> None]

\* the status verify_on_first_use records for the outcome of the probe, and the
\* error detail it stores with it
ProbeStatus(result) ==
    CASE result = "true" -> [status |-> AVAILABLE, detail |-> None]
      [] result = "false" -> [status |-> UNAVAILABLE, detail |-> None]
      [] OTHER -> [status |-> ERROR, detail |-> "Verification timed out after 15.0s"]

-----------------------------------------------------------------------------
(* Route requests: analyze_with_provider, _execute_with_fallback, _call_provider *)

NoOutcome == [kind |-> "none", by |-> NoId, tried |-> 0, ids |-> <<>>, hint |-> <<>>]

Outcome(kind, by, tried, ids, hint) ==
    [kind |-> kind, by |-> by, tried |-> tried, ids |-> ids, hint |-> hint]

IdleReq ==
    [pc |-> "idle", provider_id |-> NoId, providers |-> <<>>, primary |-> NoRef,
     attempted |-> {}, remaining |-> <<>>, i |-> 0, cur |-> NoRef, fallback |-> FALSE,
     inflight |-> 0, usable_ids |-> <<>>, primary_id |-> NoId, remaining_ids |-> <<>>,
     calls |-> <<>>, probes |-> <<>>, patches |-> <<>>, outcome |-> NoOutcome,
     listed |-> FALSE]

IdsOf(refs, last) == [i \in DOMAIN refs |-> Deref(refs[i], last).id]

\* the request after it returned or raised: its locals are gone
Finish(r, outcome) ==
    [r EXCEPT !.pc = "done", !.providers = <<>>, !.primary = NoRef, !.attempted = {},
              !.remaining = <<>>, !.i = 0, !.cur = NoRef, !.fallback = FALSE,
              !.inflight = 0, !.outcome = outcome]

Put(f, k, v) == [x \in (DOMAIN f) \cup {k} |-> IF x = k THEN v ELSE f[x]]

\* a status patch the request issues through update_provider_status
Patch(m, provider_id, status, error_msg) ==
    [m EXCEPT !.last = UpdateProviderStatus(m.last, provider_id, status, error_msg),
              !.r.patches = Append(@, [id |-> provider_id, status |-> status,
                                       found |-> UpdateFound(m.last, provider_id)])]

\* _call_provider up to its first await: the probe of verify_on_first_use when the
\* entry is ASSUMED and not a gemini one, the backend call otherwise
CallProvider(m, ref, is_fallback) ==
    LET provider == Deref(ref, m.last)
        probe == provider.status = ASSUMED /\ provider.provider # "gemini"
    IN  [m EXCEPT !.r.cur = ref, !.r.fallback = is_fallback, !.r.inflight = @ + 1,
                  !.r.pc = IF probe THEN "probing" ELSE "calling"]

\* variant of the for loop that does not add the fallback's id to attempted_providers;
\* C3_RateLimitExceededCount tells it from the code's loop
NextFallbackUncounted(m) ==
    IF m.r.i < Min(Len(m.r.remaining), max_fallback_attempts)
    THEN CallProvider([m EXCEPT !.r.i = @ + 1], m.r.remaining[m.r.i + 1], TRUE)
    ELSE [m EXCEPT !.r = Finish(m.r, Outcome("RateLimitExceeded", m.r.primary_id,
                                             Cardinality(m.r.attempted), <<>>, <<>>))]

\* the for loop of _execute_with_fallback, from the top of an iteration
NextFallback(m) ==
    IF m.r.i < Min(Len(m.r.remaining), max_fallback_attempts)
    THEN LET fallback_provider == m.r.remaining[m.r.i + 1]
             m2 == [m EXCEPT !.r.i = @ + 1,
                             !.r.attempted = @ \cup {Deref(fallback_provider, m.last).id}]
         IN  CallProvider(m2, fallback_provider, TRUE)
    ELSE [m EXCEPT !.r = Finish(m.r, Outcome("RateLimitExceeded", m.r.primary_id,
                                             Cardinality(m.r.attempted), <<>>, <<>>))]

\* the list comprehension of line 197
RemainingProviders(all_providers, attempted, last) ==
    SelectIdx(all_providers,
              {i \in DOMAIN all_providers :
                  /\ Deref(all_providers[i], last).id \notin attempted
                  /\ Deref(all_providers[i], last).status = AVAILABLE}, 1)

\* except LLMRateLimitError of the primary call
PrimaryRateLimited(m) ==
    LET m2 == Patch(m, Deref(m.r.primary, m.last).id, RATE_LIMITED,
                    "Rate limit exceeded during analysis")
        remaining == RemainingProviders(m2.r.providers, m2.r.attempted, m2.last)
    IN  NextFallback([m2 EXCEPT !.r.remaining = remaining,
                                !.r.remaining_ids = IdsOf(remaining, m2.last),
                                !.r.i = 0])

\* variant of the handlers in which the primary's except clause catches every
\* exception; C4_PrimaryErrorPropagates tells it from the code's handlers
RaisedCatchAll(m, kind, outcome) ==
    IF ~m.r.fallback THEN PrimaryRateLimited(m)
    ELSE IF kind = "rate"
         THEN NextFallback(Patch(m, Deref(m.r.cur, m.last).id, RATE_LIMITED,
                                 "Rate limit exceeded during fallback"))
         ELSE NextFallback(m)

\* variant of the handlers without the except Exception clause of the fallback loop;
\* C6_FallbackErrorsSwallowed tells it from the code's handlers
RaisedPropagate(m, kind, outcome) ==
    IF kind = "rate"
    THEN IF ~m.r.fallback THEN PrimaryRateLimited(m)
         ELSE NextFallback(Patch(m, Deref(m.r.cur, m.last).id, RATE_LIMITED,
                                 "Rate limit exceeded during fallback"))
    ELSE [m EXCEPT !.r = Finish(m.r, outcome)]

\* an exception leaves _call_provider: kind is "rate" (LLMRateLimitError) or another
\* exception, whose outcome the request ends with when nothing catches it
Raised(m, kind, outcome) ==
    IF ~m.r.fallback
    THEN IF kind = "rate" THEN PrimaryRateLimited(m)
         ELSE [m EXCEPT !.r = Finish(m.r, outcome)]
    ELSE IF kind = "rate"
         THEN NextFallback(Patch(m, Deref(m.r.cur, m.last).id, RATE_LIMITED,
                                 "Rate limit exceeded during fallback"))
         ELSE NextFallback(m)

\* variant of the selection that takes the first usable entry whenever no id is
\* passed; C10_AmbiguousSelection tells it from the code's selection
SelectFirstProvider(m, provider_id, e, catalog, providers) ==
    LET ids == IdsOf(providers, m.last)
        r0 == [IdleReq EXCEPT !.provider_id = provider_id, !.usable_ids = ids]
        fail(kind) == [m EXCEPT !.r = Finish(r0, Outcome(kind, NoId, 0, ids, <<>>))]
        provider == IF provider_id # NoId
                    THEN GetProviderById(provider_id, e, catalog, m.last)
                    ELSE providers[1]
        pid == Deref(provider, m.last).id
    IN  IF providers = <<>> THEN fail("NoProvidersConfigured")
        ELSE IF provider = NoRef THEN fail("ProviderNotFound")
        ELSE CallProvider([m EXCEPT !.r = [r0 EXCEPT !.providers = providers,
                                                     !.primary = provider,
                                                     !.primary_id = pid,
                                                     !.attempted = {pid}]],
                          provider, FALSE)

\* variant of the selection that resolves an explicit id before it looks whether any
\* usable entry exists; C12_SelectionErrorsBeforeCalls tells it from the code's selection
SelectProviderIdFirst(m, provider_id, e, catalog, providers) ==
    LET ids == IdsOf(providers, m.last)
        r0 == [IdleReq EXCEPT !.provider_id = provider_id, !.usable_ids = ids]
        fail(kind) == [m EXCEPT !.r = Finish(r0, Outcome(kind, NoId, 0, ids, <<>>))]
        go(provider) ==
            LET pid == Deref(provider, m.last).id
            IN  CallProvider([m EXCEPT !.r = [r0 EXCEPT !.providers = providers,
                                                        !.primary = provider,
                                                        !.primary_id = pid,
                                                        !.attempted = {pid}]],
                             provider, FALSE)
    IN  IF provider_id # NoId
        THEN LET provider == GetProviderById(provider_id, e, catalog, m.last)
             IN  IF provider = NoRef THEN fail("ProviderNotFound") ELSE go(provider)
        ELSE IF providers = <<>> THEN fail("NoProvidersConfigured")
        ELSE IF Len(providers) = 1 THEN go(providers[1])
        ELSE fail("AmbiguousSelection")

\* variant of the selection whose ProviderNotFound message lists the ids of all
\* entries; C11_UnknownIdListsUsableIds tells it from the code's selection
SelectProviderAllIds(m, provider_id, e, catalog, providers) ==
    LET ids == IdsOf(providers, m.last)
        r0 == [IdleReq EXCEPT !.provider_id = provider_id, !.usable_ids = ids]
        fail(kind) == [m EXCEPT !.r = Finish(r0, Outcome(kind, NoId, 0, ids, <<>>))]
        go(provider) ==
            LET pid == Deref(provider, m.last).id
            IN  CallProvider([m EXCEPT !.r = [r0 EXCEPT !.providers = providers,
                                                        !.primary = provider,
                                                        !.primary_id = pid,
                                                        !.attempted = {pid}]],
                             provider, FALSE)
    IN  IF providers = <<>> THEN fail("NoProvidersConfigured")
        ELSE IF provider_id # NoId
        THEN LET provider == GetProviderById(provider_id, e, catalog, m.last)
             IN  IF provider = NoRef
                 THEN [m EXCEPT !.r = Finish(r0, Outcome("ProviderNotFound", NoId, 0,
                                      IdsOf(GetAllProviders(e, catalog, m.last), m.last),
                                      <<>>))]
                 ELSE go(provider)
        ELSE IF Len(providers) = 1 THEN go(providers[1])
        ELSE fail("AmbiguousSelection")

\* analyze_with_provider from "if not providers" up to the first await
SelectProvider(m, provider_id, e, catalog, providers) ==
    LET ids == IdsOf(providers, m.last)
        r0 == [IdleReq EXCEPT !.provider_id = provider_id, !.usable_ids = ids]
        fail(kind) == [m EXCEPT !.r = Finish(r0, Outcome(kind, NoId, 0, ids, <<>>))]
        go(provider) ==
            LET pid == Deref(provider, m.last).id
            IN  CallProvider([m EXCEPT !.r = [r0 EXCEPT !.providers = providers,
                                                        !.primary = provider,
                                                        !.primary_id = pid,
                                                        !.attempted = {pid}]],
                             provider, FALSE)
    IN  IF providers = <<>> THEN fail("NoProvidersConfigured")
        ELSE IF provider_id # NoId
        THEN LET provider == GetProviderById(provider_id, e, catalog, m.last)
             IN  IF provider = NoRef THEN fail("ProviderNotFound") ELSE go(provider)
        ELSE IF Len(providers) = 1 THEN go(providers[1])
        ELSE fail("AmbiguousSelection")

\* analyze_with_provider up to the first await
AnalyzeWithProvider(m, provider_id, e, catalog) ==
    SelectProvider(m, provider_id, e, catalog, GetAvailableProviders(e, catalog, m.last))

\* verified_models of _call_provider: the labels of the AVAILABLE entries
VerifiedLabels(all_providers, last) ==
    SelectIdx([k \in DOMAIN all_providers |-> Deref(all_providers[k], last).label],
              {k \in DOMAIN all_providers : Deref(all_providers[k], last).status = AVAILABLE},
              1)

\* the models the suggestion of _call_provider names: the first three verified ones,
\* or the two fixed ones of its else branch
Suggestion(verified_models) ==
    IF verified_models # <<>>
    THEN SubSeq(verified_models, 1, Min(3, Len(verified_models)))
    ELSE <<Label("Gemini Flash", 0), Label("GPT-4o Mini", 0)>>

\* verify_on_first_use from the return of the probe on, then the rest of
\* _call_provider up to the await of the backend call
ProbeReturned(m, resp, e, catalog) ==
    LET provider == Deref(m.r.cur, m.last)
        result == VerifyModel(provider.provider, resp)
        is_available == result = "true"
        new_status == ProbeStatus(result).status
        error_message == ProbeStatus(result).detail
        i == FirstWithId(m.last, provider.id)
        last2 == IF new_status = ERROR
                 THEN UpdateProviderStatus(m.last, provider.id, ERROR, error_message)
                 ELSE IF i = 0 THEN m.last
                 ELSE [m.last EXCEPT ![i] = [@ EXCEPT !.status = new_status,
                                                      !.error_message = None]]
        m2 == [m EXCEPT !.verified = Put(@, provider.id, new_status),
                        !.last = last2,
                        !.r.inflight = @ - 1,
                        !.r.probes = Append(@, [id |-> provider.id, result |-> result,
                                                resp |-> resp])]
        verified_models == VerifiedLabels(GetAvailableProviders(e, catalog, m2.last), m2.last)
    IN  IF ~is_available
        THEN Raised(m2, "selection",
                    Outcome("VerificationFailed", provider.id, 0, <<>>,
                            Suggestion(verified_models)))
        ELSE [m2 EXCEPT !.r.pc = "calling", !.r.inflight = @ + 1]

\* variant of the rest of _call_provider without the update_provider_status call that
\* follows a successful use; C13_FirstUsePromotes tells it from the code's function
BackendReturnedUnconfirmed(m, resp) ==
    LET provider == Deref(m.r.cur, m.last)
        result == ClientResult(provider.provider, resp)
        m2 == [m EXCEPT !.r.inflight = @ - 1,
                        !.r.calls = Append(@, [id |-> provider.id, result |-> result,
                                               resp |-> resp])]
    IN  CASE result = "ok" ->
               [m2 EXCEPT !.r = Finish(m2.r, Outcome("ok", provider.id, 0, <<>>, <<>>))]
          [] result = "rate" -> Raised(m2, "rate", NoOutcome)
          [] OTHER -> Raised(m2, "runtime",
                             Outcome("BackendError", provider.id, 0, <<>>, <<>>))

\* the rest of _call_provider and of _execute_with_fallback once run_<provider>
\* returned or raised
BackendReturned(m, resp) ==
    LET provider == Deref(m.r.cur, m.last)
        result == ClientResult(provider.provider, resp)
        m2 == [m EXCEPT !.r.inflight = @ - 1,
                        !.r.calls = Append(@, [id |-> provider.id, result |-> result,
                                               resp |-> resp])]
    IN  CASE result = "ok" ->
               LET m3 == IF provider.status = ASSUMED
                         THEN Patch(m2, provider.id, AVAILABLE, None) ELSE m2
               IN  [m3 EXCEPT !.r = Finish(m3.r, Outcome("ok", provider.id, 0, <<>>, <<>>))]
          [] result = "rate" -> Raised(m2, "rate", NoOutcome)
          [] OTHER -> Raised(m2, "runtime",
                             Outcome("BackendError", provider.id, 0, <<>>, <<>>))

-----------------------------------------------------------------------------
(* The credential configurations explored *)

EnvNone == <<>>
EnvGemini == << <<"GEMINI_API_KEY", "validlongkeyvalue123">> >>
EnvTest == << <<"GEMINI_API_KEY", "test_api_key_for_testing">> >>
EnvGeminiHF == << <<"GEMINI_API_KEY", "validlongkeyvalue123">>,
                  <<"HF_TOKEN", "hf_validtoken456">> >>
EnvHFOverride == << <<"HF_API_KEY", "hf_validtoken456">>,
                    <<"HF_MODEL", "unsloth/Llama-3.1-8B-Instruct">> >>

EnvOpenAI == << <<"OPENAI_API_KEY", "sk-validopenaikey123">> >>
EnvAnthropic == << <<"ANTHROPIC_API_KEY", "sk-ant-validkey123456">> >>

EnvConfigs == {EnvNone, EnvGemini, EnvTest, EnvHFOverride}

\* an instant of time.time(): far more than the TTL after the epoch
StartTime == 2 * DISCOVERY_CACHE_TTL

\* next: the finished requests since whose end no listing was served before this one
NoListing == [called |-> FALSE, refresh |-> FALSE, items |-> <<>>, next |-> {}]

Requests == {"r1"}

-----------------------------------------------------------------------------
(* The state machine *)

InitWith(configs) ==
    /\ env \in configs
    /\ now = StartTime
    /\ CANDIDATE_MODELS = CatalogInit
    /\ LAST_DISCOVERED = <<>>
    /\ LAST_DISCOVERY_TIME = 0
    /\ VERIFIED_MODELS = <<>>
    /\ listing = NoListing
    /\ rq = [x \in Requests |-> IdleReq]
    /\ routes = 0
    /\ api = <<>>
    /\ analysis_cache = <<>>
    /\ inv = <<>>

Init == InitWith(EnvConfigs)

Machine(x) == [r |-> rq[x], last |-> LAST_DISCOVERED, verified |-> VERIFIED_MODELS]

Store(x, m) ==
    /\ rq' = [rq EXCEPT ![x] = m.r]
    /\ LAST_DISCOVERED' = m.last
    /\ VERIFIED_MODELS' = m.verified

\* the ids a caller may pass: those of the entries, one no entry has, or none
CallerIds ==
    LET all_providers == GetAllProviders(env, CANDIDATE_MODELS, LAST_DISCOVERED)
    IN  Range(IdsOf(all_providers, LAST_DISCOVERED)) \cup {NoSuchId, NoId}

\* POST /analyze reaches analyze_with_provider(provider_id, ...)
RouteStart(x, provider_id) ==
    /\ rq[x].pc \in {"idle", "done"}
    /\ routes < MaxRoutes
    /\ routes' = routes + 1
    /\ Store(x, AnalyzeWithProvider(Machine(x), provider_id, env, CANDIDATE_MODELS))
    /\ listing' = NoListing
    /\ UNCHANGED <<env, now, CANDIDATE_MODELS, LAST_DISCOVERY_TIME>>

\* the probe awaited in verify_on_first_use completes
ProbeReturn(x, resp) ==
    /\ rq[x].pc = "probing"
    /\ Store(x, ProbeReturned(Machine(x), resp, env, CANDIDATE_MODELS))
    /\ listing' = NoListing
    /\ UNCHANGED <<env, now, CANDIDATE_MODELS, LAST_DISCOVERY_TIME, routes>>

\* the backend call awaited in _call_provider completes
BackendReturn(x, resp) ==
    /\ rq[x].pc = "calling"
    /\ Store(x, BackendReturned(Machine(x), resp))
    /\ listing' = NoListing
    /\ UNCHANGED <<env, now, CANDIDATE_MODELS, LAST_DISCOVERY_TIME, routes>>

DetachRequest(r, last) ==
    [r EXCEPT !.providers = [i \in DOMAIN @ |-> Detach(@[i], last)],
              !.remaining = [i \in DOMAIN @ |-> Detach(@[i], last)],
              !.primary = Detach(@, last),
              !.cur = Detach(@, last)]

\* list_providers around a discover_providers whose value and effects are d
Respond(refresh, d) ==
    /\ LAST_DISCOVERED' = d.last
    /\ LAST_DISCOVERY_TIME' = d.time
    /\ CANDIDATE_MODELS' = d.catalog
    /\ listing' = [called |-> TRUE, refresh |-> refresh,
                   items |-> [i \in DOMAIN d.result |-> ProviderResponse(d.result[i])],
                   next |-> {x \in DOMAIN rq : rq[x].pc = "done" /\ ~rq[x].listed}]
    /\ rq' = [x \in DOMAIN rq |->
                LET r == IF d.replaced THEN DetachRequest(rq[x], LAST_DISCOVERED)
                         ELSE rq[x]
                IN  [r EXCEPT !.listed = (r.pc = "done")]]
    /\ UNCHANGED <<env, now, VERIFIED_MODELS, routes>>

\* GET /llm/providers?refresh=...: list_providers
ListProviders(refresh) ==
    Respond(refresh,
            DiscoverProviders(refresh, env, now, CANDIDATE_MODELS, LAST_DISCOVERED,
                              LAST_DISCOVERY_TIME, VERIFIED_MODELS))

\* GET /llm/providers whose discovery cycle has one task, the k-th, raise an
\* unexpected exception (a MemoryError while the entry is built, say) beside at
\* least one task that returns
ListProvidersTaskFails(refresh, k) ==
    /\ ~CacheFresh(refresh, LAST_DISCOVERED, now, LAST_DISCOVERY_TIME)
    /\ TaskCount(env, CANDIDATE_MODELS, VERIFIED_MODELS) >= 2
    /\ k <= TaskCount(env, CANDIDATE_MODELS, VERIFIED_MODELS)
    /\ Respond(refresh,
               DiscoverProvidersTaskFails(k, refresh, env, now, CANDIDATE_MODELS,
                                          LAST_DISCOVERED, LAST_DISCOVERY_TIME,
                                          VERIFIED_MODELS))

\* time passes
Tick ==
    /\ UNCHANGED <<api, analysis_cache, inv>>
    /\ now + TickStep <= StartTime + MaxTicks * TickStep
    /\ now' = now + TickStep
    /\ listing' = NoListing
    /\ UNCHANGED <<env, CANDIDATE_MODELS, LAST_DISCOVERED, LAST_DISCOVERY_TIME,
                   VERIFIED_MODELS, rq, routes>>

RouteArrives ==
    /\ UNCHANGED <<api, analysis_cache, inv>>
    /\ \E x \in DOMAIN rq : \E provider_id \in CallerIds : RouteStart(x, provider_id)

ProbeCompletes ==
    /\ UNCHANGED <<api, analysis_cache, inv>>
    /\ \E x \in DOMAIN rq : \E resp \in ProbeResponses : ProbeReturn(x, resp)

BackendCompletes ==
    /\ UNCHANGED <<api, analysis_cache, inv>>
    /\ \E x \in DOMAIN rq : \E resp \in Responses : BackendReturn(x, resp)

ListingRequested ==
    /\ UNCHANGED <<api, analysis_cache, inv>>
    /\ \E refresh \in BOOLEAN : ListProviders(refresh)

Next ==
    \/ RouteArrives
    \/ ProbeCompletes
    \/ BackendCompletes
    \/ ListingRequested
    \/ Tick

Spec == Init /\ [][Next]_vars

\* two provider types configured at once
InitTwoKeys == InitWith({EnvGeminiHF})

SpecTwoKeys == InitTwoKeys /\ [][Next]_vars

\* the module globals of the provider engine as a function studied on its own finds
\* and leaves them
CoreIdle ==
    /\ env = EnvNone
    /\ now = StartTime
    /\ CANDIDATE_MODELS = CatalogInit
    /\ LAST_DISCOVERED = <<>>
    /\ LAST_DISCOVERY_TIME = 0
    /\ VERIFIED_MODELS = <<>>
    /\ listing = NoListing
    /\ rq = [x \in Requests |-> IdleReq]
    /\ routes = 0

(* _infer_speed on its own: the models of the catalog and of the latency table with a
   latency at, beside and between the thresholds, or with none. *)
InitSpeed ==
    /\ CoreIdle
    /\ api = <<>>
    /\ analysis_cache = <<>>
    /\ inv \in [{"i1"} ->
                 [model_name : {"gemini-flash-latest", "gemini-2.5-pro", "gpt-4o",
                                "gpt-4o-mini", "o1-mini", "claude-3-opus-20240229",
                                "claude-3-5-sonnet-20241022", "deepseek-ai/DeepSeek-R1",
                                "meta-llama/Llama-3.1-8B-Instruct",
                                "unsloth/Llama-3.1-8B-Instruct"},
                  latency_ms : {NoLatency, 0, 999, 1000, 1001, 1500, 2999, 3000, 3001,
                                5000},
                  speed : {None}]]

\* _infer_speed(model_name, latency_ms) is called and returns
InferSpeedCalled ==
    \E x \in DOMAIN inv :
    /\ inv[x].speed = None
    /\ inv' = [inv EXCEPT ![x].speed = InferSpeed(inv[x].model_name, inv[x].latency_ms)]
    /\ UNCHANGED <<env, now, CANDIDATE_MODELS, LAST_DISCOVERED, LAST_DISCOVERY_TIME,
                   VERIFIED_MODELS, listing, rq, routes, api, analysis_cache>>

SpecSpeed == InitSpeed /\ [][InferSpeedCalled]_vars

(* truncate_text on its own. A text is a sequence of characters. *)
MaxTextLen == 3

TRUNCATION_MARKER ==
    <<"\n", ".", ".", ".", "[", "T", "R", "U", "N", "C", "A", "T", "E", "D", "]">>

\* text[:n]
Prefix(text, n) ==
    IF n >= 0
    THEN SubSeq(text, 1, IF n < Len(text) THEN n ELSE Len(text))
    ELSE SubSeq(text, 1, IF Len(text) + n > 0 THEN Len(text) + n ELSE 0)

\* variant of truncate_text that keeps a text only when it is shorter than max_length;
\* C33_TruncateText tells it from the code's function
TruncateTextStrict(text, max_length) ==
    IF Len(text) < max_length
    THEN [out |-> text, flag |-> FALSE]
    ELSE [out |-> Prefix(text, max_length) \o TRUNCATION_MARKER, flag |-> TRUE]

TruncateText(text, max_length) ==
    IF Len(text) <= max_length
    THEN [out |-> text, flag |-> FALSE]
    ELSE [out |-> Prefix(text, max_length) \o TRUNCATION_MARKER, flag |-> TRUE]

\* two calls, each with a text of up to MaxTextLen characters and a max_length
InitTruncate ==
    /\ CoreIdle
    /\ api = <<>>
    /\ analysis_cache = <<>>
    /\ inv \in [{"t1", "t2"} ->
                 [text : UNION {[1..n -> {"a", "b"}] : n \in 0..MaxTextLen},
                  max_length : 0..MaxTextLen,
                  out : {<<>>}, flag : {FALSE}, pc : {"called"}]]

\* truncate_text(text, max_length) returns
TruncateTextCalled ==
    \E x \in DOMAIN inv :
    /\ inv[x].pc = "called"
    /\ LET r == TruncateText(inv[x].text, inv[x].max_length)
       IN  inv' = [inv EXCEPT ![x].out = r.out, ![x].flag = r.flag, ![x].pc = "returned"]
    /\ UNCHANGED <<env, now, CANDIDATE_MODELS, LAST_DISCOVERED, LAST_DISCOVERY_TIME,
                   VERIFIED_MODELS, listing, rq, routes, api, analysis_cache>>

SpecTruncate == InitTruncate /\ [][TruncateTextCalled]_vars

(* Exceptions are named by their class; Ancestors is the set of the classes whose
   except clause or isinstance test matches the exception. *)
IsInstance(exc, cls) ==
    LET Ancestors ==
            CASE exc = "JSONDecodeError" -> {"JSONDecodeError", "ValueError", "Exception"}
              [] exc = "ValueError" -> {"ValueError", "Exception"}
              [] exc = "RuntimeError" -> {"RuntimeError", "Exception"}
              [] exc = "HTTPStatusError" -> {"HTTPStatusError", "Exception"}
              [] exc = "ConnectError" -> {"ConnectError", "Exception"}
              [] exc = "RetryError" -> {"RetryError", "Exception"}
              [] exc = "ProviderSelectionError" -> {"ProviderSelectionError", "Exception"}
              [] exc = "LLMRateLimitError" -> {"LLMRateLimitError", "Exception"}
              [] OTHER -> {exc, "Exception"}
    IN  cls \in Ancestors

(* GitHubClient.fetch_issue under its tenacity decorator. *)
stop_after_attempt == 3

\* variant of is_retryable_error that lets a RuntimeError be retried;
\* C37_FetchIssueAttempts tells it from the code's function
IsRetryableErrorValueOnly(exception) ==
    ~IsInstance(exception, "ValueError")

is_retryable_error(exception) ==
    IF IsInstance(exception, "ValueError") THEN FALSE
    ELSE IF IsInstance(exception, "RuntimeError") THEN FALSE
    ELSE TRUE

\* the body of fetch_issue on what GitHub answers its GET (a status, a 200 whose body
\* is not JSON, or no answer): the exception it raises, None on return
FetchIssueBody(resp) ==
    CASE resp = "404" -> "ValueError"
      [] resp = "403" -> "RuntimeError"
      [] resp = "500" -> "HTTPStatusError"
      [] resp = "no-connection" -> "ConnectError"
      [] resp = "200-not-json" -> "JSONDecodeError"
      [] OTHER -> None

\* the decorator starts an attempt of a call: the first one, or the next after the wait
FetchIssueAttempt ==
    \E x \in DOMAIN inv :
    /\ inv[x].pc \in {"called", "waiting"}
    /\ inv' = [inv EXCEPT ![x].pc = "attempting", ![x].attempts = @ + 1]
    /\ UNCHANGED <<env, now, CANDIDATE_MODELS, LAST_DISCOVERED, LAST_DISCOVERY_TIME,
                   VERIFIED_MODELS, listing, rq, routes, api, analysis_cache>>

\* GitHub answers the attempt; the decorator returns, raises or schedules a retry
FetchIssueAnswered ==
    \E x \in DOMAIN inv :
    \E resp \in {"200", "404", "403", "500", "200-not-json", "no-connection"} :
    /\ inv[x].pc = "attempting"
    /\ LET exc == FetchIssueBody(resp)
           log == Append(inv[x].responses, resp)
       IN  inv' = [inv EXCEPT ![x] =
                  IF exc = None
                  THEN [@ EXCEPT !.pc = "returned", !.responses = log]
                  ELSE IF ~is_retryable_error(exc)
                  THEN [@ EXCEPT !.pc = "raised", !.responses = log, !.error = exc]
                  ELSE IF inv[x].attempts >= stop_after_attempt
                  THEN [@ EXCEPT !.pc = "raised", !.responses = log,
                                 !.error = "RetryError"]
                  ELSE [@ EXCEPT !.pc = "waiting", !.responses = log]]
    /\ UNCHANGED <<env, now, CANDIDATE_MODELS, LAST_DISCOVERED, LAST_DISCOVERY_TIME,
                   VERIFIED_MODELS, listing, rq, routes, api, analysis_cache>>

\* two calls of fetch_issue, each about to make its first attempt
InitFetch ==
    /\ CoreIdle
    /\ api = <<>>
    /\ analysis_cache = <<>>
    /\ inv = [x \in {"f1", "f2"} |->
                [pc |-> "called", attempts |-> 0, responses |-> <<>>, error |-> None]]

SpecFetch == InitFetch /\ [][FetchIssueAttempt \/ FetchIssueAnswered]_vars

(* run_gemini on its own. One generation call ends in a valid analysis ("ok"), in an
   output that fails validation ("invalid"; "invalid-quoting-429" when the message of
   the validation error quotes a 429 from the output), or in an exception of the SDK
   ("429", "ResourceExhausted", "error"); a failure is known to the function by its
   text only. *)

\* "429" in err_str or "ResourceExhausted" in err_str or "QuotaExceeded" in err_str
MentionsQuota(outcome) ==
    outcome \in {"429", "ResourceExhausted", "invalid-quoting-429"}

\* variant of the retry's except clause that also looks at the first failure;
\* C38_GeminiTwoCalls tells it from the code's clause
RetryErrorRaisedEither(first_error, retry_error) ==
    IF MentionsQuota(first_error) \/ MentionsQuota(retry_error)
    THEN "LLMRateLimitError" ELSE "RuntimeError"

\* what the except clause of the retry raises
RetryErrorRaised(first_error, retry_error) ==
    IF MentionsQuota(retry_error) THEN "LLMRateLimitError" ELSE "RuntimeError"

\* two invocations of run_gemini
InitGemini ==
    /\ CoreIdle
    /\ api = <<>>
    /\ analysis_cache = <<>>
    /\ inv = [x \in {"g1", "g2"} |->
                [pc |-> "called", generations |-> <<>>, started |-> 0, error |-> None]]

\* run_gemini is called and awaits its first generate_content_async
RunGeminiCalled ==
    \E x \in DOMAIN inv :
    /\ inv[x].pc = "called"
    /\ inv' = [inv EXCEPT ![x].pc = "generating", ![x].started = 1]
    /\ UNCHANGED <<env, now, CANDIDATE_MODELS, LAST_DISCOVERED, LAST_DISCOVERY_TIME,
                   VERIFIED_MODELS, listing, rq, routes, api, analysis_cache>>

\* a generation call ends: return, the retry (begun in the same step), or the raise
GenerateReturns ==
    \E x \in DOMAIN inv :
    \E outcome \in {"ok", "invalid", "invalid-quoting-429", "429", "ResourceExhausted",
                    "error"} :
    /\ inv[x].pc = "generating"
    /\ LET log == Append(inv[x].generations, outcome)
       IN  inv' = [inv EXCEPT ![x] =
                  IF outcome = "ok"
                  THEN [@ EXCEPT !.pc = "returned", !.generations = log]
                  ELSE IF Len(inv[x].generations) = 0
                  THEN [@ EXCEPT !.generations = log, !.started = 2]
                  ELSE [@ EXCEPT !.pc = "raised", !.generations = log,
                                 !.error = RetryErrorRaised(inv[x].generations[1],
                                                            outcome)]]
    /\ UNCHANGED <<env, now, CANDIDATE_MODELS, LAST_DISCOVERED, LAST_DISCOVERY_TIME,
                   VERIFIED_MODELS, listing, rq, routes, api, analysis_cache>>

SpecGemini == InitGemini /\ [][RunGeminiCalled \/ GenerateReturns]_vars

(* One credential of each provider type in turn: every backend is called. *)
SpecBackends ==
    InitWith({EnvGemini, EnvOpenAI, EnvAnthropic, EnvHFOverride}) /\ [][Next]_vars

(* Two requests in flight at once on one gemini credential (gemini entries are never
   probed, so there is no probe step). *)
ConcurrentRequests == {"r1", "r2"}

InitConcurrent ==
    /\ env = EnvGemini
    /\ now = StartTime
    /\ CANDIDATE_MODELS = CatalogInit
    /\ LAST_DISCOVERED = <<>>
    /\ LAST_DISCOVERY_TIME = 0
    /\ VERIFIED_MODELS = <<>>
    /\ listing = NoListing
    /\ rq = [x \in ConcurrentRequests |-> IdleReq]
    /\ routes = 0
    /\ api = <<>>
    /\ analysis_cache = <<>>
    /\ inv = <<>>

NextConcurrent ==
    \/ RouteArrives
    \/ BackendCompletes
    \/ ListingRequested

SpecConcurrent == InitConcurrent /\ [][NextConcurrent]_vars

(* Batches of more tasks than CONCURRENCY_LIMIT: two provider types, six tasks. *)
NextBatch ==
    \/ RouteArrives
    \/ ProbeCompletes
    \/ BackendCompletes
    \/ ListingRequested

SpecBatch == InitTwoKeys /\ [][NextBatch]_vars

(* Discovery cycles in which a task may raise.  One gemini credential: three tasks,
   of which at most one fails in a cycle. *)
ListingTaskFails ==
    /\ UNCHANGED <<api, analysis_cache, inv>>
    /\ \E refresh \in BOOLEAN : \E k \in 1..MaxTasks : ListProvidersTaskFails(refresh, k)

InitTaskFault == InitWith({EnvGemini})

NextTaskFault ==
    \/ RouteArrives
    \/ BackendCompletes
    \/ ListingRequested
    \/ ListingTaskFails

SpecTaskFault == InitTaskFault /\ [][NextTaskFault]_vars

(* The credential scan over the environments of up to MaxEnvVars variables: the
   unsuffixed, the numbered and the token name of one provider type, each with an
   empty, a short, a placeholder or a real secret.  Only gemini entries arise, which
   are never probed, so the probe step is not part of this specification. *)
ScanNames == {"GEMINI_API_KEY", "GEMINI_API_KEY_2", "GEMINI_TOKEN"}

ScanValues == {"", "short", "YOUR_API_KEY_HERE", "validlongkeyvalue123",
               "anothervalidkey789"}

\* os.environ: a mapping, so no name twice, in the order os.environ.items() gives
ScanEnvs ==
    {e \in UNION {[1..n -> ScanNames \X ScanValues] : n \in 0..MaxEnvVars} :
        \A i, j \in DOMAIN e : i # j => e[i][1] # e[j][1]}

InitRegistry == InitWith(ScanEnvs)

NextRegistry ==
    \/ RouteArrives
    \/ BackendCompletes
    \/ ListingRequested

SpecRegistry == InitRegistry /\ [][NextRegistry]_vars

(* os.environ is read anew by every discovery cycle and every legacy listing
   (os.environ.items(), os.getenv), so the credentials are an input of each call and
   not of the process: here they may be withdrawn while the process runs, as the
   test fixture does with os.environ.pop. *)
CredentialsRemoved ==
    /\ UNCHANGED <<api, analysis_cache, inv>>
    /\ env # EnvNone
    /\ env' = EnvNone
    /\ listing' = NoListing
    /\ UNCHANGED <<now, CANDIDATE_MODELS, LAST_DISCOVERED, LAST_DISCOVERY_TIME,
                   VERIFIED_MODELS, rq, routes>>

(* The override model is read with os.getenv by every cycle: here the variable is
   withdrawn while the process runs and the credential stays. *)
EnvHF == << <<"HF_API_KEY", "hf_validtoken456">> >>

OverrideRemoved ==
    /\ UNCHANGED <<api, analysis_cache, inv>>
    /\ env = EnvHFOverride
    /\ env' = EnvHF
    /\ listing' = NoListing
    /\ UNCHANGED <<now, CANDIDATE_MODELS, LAST_DISCOVERED, LAST_DISCOVERY_TIME,
                   VERIFIED_MODELS, rq, routes>>

SpecOverride == InitWith({EnvHFOverride}) /\ [][Next \/ OverrideRemoved]_vars

InitEnvChange == InitWith({EnvGemini, EnvHFOverride})

NextEnvChange ==
    \/ Next
    \/ CredentialsRemoved

SpecEnvChange == InitEnvChange /\ [][NextEnvChange]_vars

-----------------------------------------------------------------------------
(* POST /analyze: analyze_issue around the router, with the analysis cache. One request
   at a time; its router part runs in the slot r1. *)

MaxAnalyses == 3

analysis_cache_ttl == 900

\* parse_github_url(url): <<owner, repo>>, or None where the pattern finds no match
ParseGithubUrl(url) ==
    CASE url = "https://github.com/octo/repo" -> <<"octo", "repo">>
      [] url = "https://github.com/octo/repo.git" -> <<"octo", "repo">>
      [] OTHER -> None

\* the exception that leaves analyze_with_provider with the outcome, None on return
ExceptionOf(kind) ==
    CASE kind = "ok" -> None
      [] kind = "BackendError" -> "RuntimeError"
      [] kind = "RateLimitExceeded" -> "LLMRateLimitError"
      [] OTHER -> "ProviderSelectionError"

\* the except clauses of analyze_issue, in their order
HandlerStatus(exc) ==
    IF IsInstance(exc, "ProviderSelectionError") THEN 400
    ELSE IF IsInstance(exc, "LLMRateLimitError") THEN 429
    ELSE IF IsInstance(exc, "ValueError") THEN 404
    ELSE IF IsInstance(exc, "RuntimeError") THEN 403
    ELSE 500

\* no request yet: no key, no status, no analysis
IdleApi ==
    [pc |-> "idle", n |-> 0, repo_url |-> "", issue_number |-> 0, provider_id |-> NoId,
     effective |-> NoId, key |-> <<"", 0, NoId>>, fetches |-> 0, routed |-> FALSE,
     cause |-> None, status |-> 0, analysis |-> [by |-> NoId, n |-> 0],
     cached |-> FALSE, meta_provider_id |-> NoId]

\* key in analysis_cache: TTLCache hides an item from the moment its time is up
CacheHas(cache, key, t) ==
    key \in DOMAIN cache /\ t < cache[key].expires

\* variant of the hit that sets the flag on the stored response itself, without the
\* deep copy; C35_AnalysisCache tells it from the code's hit
ServeHitShared(cache, key) ==
    [cache |-> [cache EXCEPT ![key].cached = TRUE],
     analysis |-> cache[key].analysis, cached |-> TRUE,
     meta_provider_id |-> cache[key].meta_provider_id]

\* analysis_cache[cache_key].model_copy(deep=True) with meta.cached = True
ServeHit(cache, key) ==
    [cache |-> cache,
     analysis |-> cache[key].analysis, cached |-> TRUE,
     meta_provider_id |-> cache[key].meta_provider_id]

\* POST /analyze arrives: analyze_issue up to the gather (effective id, cache lookup,
\* URL check)
AnalyzeIssue ==
    \E a \in DOMAIN api :
    \E repo_url \in {"https://github.com/octo/repo", "https://gitlab.com/octo/repo"} :
    \E issue_number \in {1} : \E provider_id \in CallerIds :
    LET providers == GetAvailableProviders(env, CANDIDATE_MODELS, LAST_DISCOVERED)
        effective == IF provider_id # NoId THEN provider_id
                     ELSE IF Len(providers) = 1
                     THEN Deref(providers[1], LAST_DISCOVERED).id
                     ELSE NoId
        key == <<repo_url, issue_number, effective>>
        r == [IdleApi EXCEPT !.n = api[a].n + 1, !.repo_url = repo_url,
                             !.issue_number = issue_number,
                             !.provider_id = provider_id, !.effective = effective,
                             !.key = key]
    IN  /\ api[a].pc \in {"idle", "done"}
        /\ api[a].n < MaxAnalyses
        /\ CacheHas(analysis_cache, key, now) \/ routes < MaxRoutes
        /\ IF CacheHas(analysis_cache, key, now)
           THEN LET hit == ServeHit(analysis_cache, key)
                IN  /\ api' = [api EXCEPT ![a] =
                               [r EXCEPT !.pc = "done", !.status = 200,
                                         !.analysis = hit.analysis,
                                         !.cached = hit.cached,
                                         !.meta_provider_id = hit.meta_provider_id]]
                    /\ analysis_cache' = hit.cache
           ELSE /\ api' = [api EXCEPT ![a] =
                               IF ParseGithubUrl(repo_url) = None
                               THEN [r EXCEPT !.pc = "done", !.status = 400,
                                              !.cause = "InvalidUrl"]
                               ELSE [r EXCEPT !.pc = "fetching", !.fetches = 1]]
                /\ analysis_cache' = analysis_cache
        /\ listing' = NoListing
        /\ UNCHANGED <<env, now, CANDIDATE_MODELS, LAST_DISCOVERED, LAST_DISCOVERY_TIME,
                       VERIFIED_MODELS, rq, routes, inv>>

\* analyze_issue from the return or the raise of analyze_with_provider on: the
\* response and its storing (TTLCache.__setitem__ drops the expired items first), or
\* the except clause (the router's part of the step is in the primed variables)
AfterRouter(a, x) ==
    IF rq'[x].pc # "done"
    THEN /\ api' = [api EXCEPT ![a].pc = "analyzing", ![a].routed = TRUE]
         /\ analysis_cache' = analysis_cache
    ELSE IF rq'[x].outcome.kind = "ok"
    THEN LET analysis == [by |-> rq'[x].outcome.by, n |-> routes']
         IN  /\ api' = [api EXCEPT ![a].pc = "done", ![a].routed = TRUE,
                                   ![a].status = 200,
                                   ![a].analysis = analysis, ![a].cached = FALSE,
                                   ![a].meta_provider_id = api[a].effective]
             /\ analysis_cache' =
                    Put([k \in {j \in DOMAIN analysis_cache :
                                  now < analysis_cache[j].expires} |-> analysis_cache[k]],
                        api[a].key,
                        [analysis |-> analysis, cached |-> FALSE,
                         meta_provider_id |-> api[a].effective,
                         expires |-> now + analysis_cache_ttl, stored_at |-> now])
    ELSE /\ api' = [api EXCEPT ![a].pc = "done", ![a].routed = TRUE,
                               ![a].status =
                                   HandlerStatus(ExceptionOf(rq'[x].outcome.kind)),
                               ![a].cause = rq'[x].outcome.kind]
         /\ analysis_cache' = analysis_cache

\* the gather returns. fetch_issue returned, or raised ValueError (404), RuntimeError
\* (403), RetryError (three failed attempts) or JSONDecodeError: the exception is
\* raised again, or the context is built and analyze_with_provider runs up to its
\* first await
GitHubFetched ==
    \E a \in DOMAIN api : \E x \in DOMAIN rq :
    \E fetched \in {"ok", "ValueError", "RuntimeError", "RetryError", "JSONDecodeError"} :
    /\ api[a].pc = "fetching"
    /\ IF fetched # "ok"
       THEN /\ api' = [api EXCEPT ![a].pc = "done", ![a].status = HandlerStatus(fetched),
                                  ![a].cause = fetched]
            /\ listing' = NoListing
            /\ UNCHANGED <<env, now, CANDIDATE_MODELS, LAST_DISCOVERED,
                           LAST_DISCOVERY_TIME, VERIFIED_MODELS, rq, routes,
                           analysis_cache>>
       ELSE /\ RouteStart(x, api[a].provider_id)
            /\ AfterRouter(a, x)
    /\ UNCHANGED inv

\* the probe the request awaits completes
AnalyzeProbed ==
    \E a \in DOMAIN api : \E x \in DOMAIN rq : \E resp \in ProbeResponses :
    /\ api[a].pc = "analyzing"
    /\ ProbeReturn(x, resp)
    /\ AfterRouter(a, x)
    /\ UNCHANGED inv

\* the backend call the request awaits completes
AnalyzeCalled ==
    \E a \in DOMAIN api : \E x \in DOMAIN rq : \E resp \in Responses :
    /\ api[a].pc = "analyzing"
    /\ BackendReturn(x, resp)
    /\ AfterRouter(a, x)
    /\ UNCHANGED inv

InitAnalyze ==
    /\ env \in {EnvGemini, EnvHF}
    /\ now = StartTime
    /\ CANDIDATE_MODELS = CatalogInit
    /\ LAST_DISCOVERED = <<>>
    /\ LAST_DISCOVERY_TIME = 0
    /\ VERIFIED_MODELS = <<>>
    /\ listing = NoListing
    /\ rq = [x \in Requests |-> IdleReq]
    /\ routes = 0
    /\ api = [a \in {"a1"} |-> IdleApi]
    /\ analysis_cache = <<>>
    /\ inv = <<>>

SpecAnalyze ==
    InitAnalyze /\ [][\/ AnalyzeIssue
                      \/ GitHubFetched
                      \/ AnalyzeProbed
                      \/ AnalyzeCalled
                      \/ ListingRequested
                      \/ Tick]_vars

-----------------------------------------------------------------------------
(* Properties *)

Done(r) == r.pc = "done"

\* the primary's backend call of request r raised the rate-limit error
PrimaryRateLimit(r) == Len(r.calls) >= 1 /\ r.calls[1].result = "rate"

\* the usable entries, other than the primary, that existed when r was routed
OtherUsable(r) == {i \in DOMAIN r.usable_ids : r.usable_ids[i] # r.primary_id}

CallIds(r) == {r.calls[k].id : k \in DOMAIN r.calls}

\* the entries the accessors read in the current state
EntriesNow ==
    IF LAST_DISCOVERED # <<>> THEN LAST_DISCOVERED
    ELSE FallbackProviders(env, CANDIDATE_MODELS)

\* no usable entry after one that is rate-limited, in error or unavailable
Ranked(items) ==
    \A i, j \in DOMAIN items :
        (i < j /\ items[i].status \in {RATE_LIMITED, ERROR, UNAVAILABLE})
            => items[j].status \notin {AVAILABLE, ASSUMED}

(* C1: a route with an explicit id whose primary call is rate-limited, while exactly
   one other usable entry exists and no call to it fails, returns that entry's
   result. *)
C1_FallbackReturnsResult ==
    \A x \in DOMAIN rq :
        LET r == rq[x]
        IN  ( /\ Done(r) /\ r.provider_id # NoId /\ PrimaryRateLimit(r)
              /\ Cardinality(OtherUsable(r)) = 1
              /\ \A k \in 2..Len(r.calls) : r.calls[k].result = "ok" )
            => /\ r.outcome.kind = "ok"
               /\ \E i \in OtherUsable(r) : r.outcome.by = r.usable_ids[i]

(* C2: the first listing (no forced refresh) served after a route whose primary call
   was rate-limited shows the primary entry as RATE_LIMITED. *)
C2_ListingShowsRateLimited ==
    \A x \in listing.next :
        (listing.called /\ ~listing.refresh /\ PrimaryRateLimit(rq[x]))
        => \E i \in DOMAIN listing.items :
              /\ listing.items[i].id = rq[x].primary_id
              /\ listing.items[i].status = RATE_LIMITED

(* C3: a route whose primary call was rate-limited and none of whose fallback calls
   succeeded raises RateLimitExceeded naming the primary id and the number of
   distinct provider ids attempted; primary plus one fallback gives 2. *)
C3_RateLimitExceededCount ==
    \A x \in DOMAIN rq :
        LET r == rq[x]
        IN  ( /\ Done(r) /\ PrimaryRateLimit(r)
              /\ \A k \in 2..Len(r.calls) : r.calls[k].result # "ok" )
            => /\ r.outcome.kind = "RateLimitExceeded"
               /\ r.outcome.by = r.calls[1].id
               /\ r.outcome.tried = Cardinality(CallIds(r))
               /\ (Len(r.calls) = 2 => r.outcome.tried = 2)

C3_Witness ==
    \E x \in DOMAIN rq :
        /\ Done(rq[x]) /\ Len(rq[x].calls) = 2
        /\ rq[x].calls[1].result = "rate" /\ rq[x].calls[2].result = "rate"
        /\ rq[x].outcome.kind = "RateLimitExceeded" /\ rq[x].outcome.tried = 2

(* C4: a primary backend call that fails with another error than the rate limit ends
   the route with that error: one call only, no fallback, no status patch. *)
C4_PrimaryErrorPropagates ==
    \A x \in DOMAIN rq :
        LET r == rq[x]
        IN  (Len(r.calls) >= 1 /\ r.calls[1].result = "err")
            => /\ Done(r)
               /\ r.outcome.kind = "BackendError" /\ r.outcome.by = r.primary_id
               /\ Len(r.calls) = 1
               /\ r.patches = <<>>
               /\ r.remaining_ids = <<>>

\* the primary failed while an AVAILABLE entry stood ready as a fallback
C4_Witness ==
    \E x \in DOMAIN rq :
        /\ Done(rq[x]) /\ Len(rq[x].calls) = 1 /\ rq[x].calls[1].result = "err"
        /\ \E i \in DOMAIN LAST_DISCOVERED :
              /\ LAST_DISCOVERED[i].id # rq[x].primary_id
              /\ LAST_DISCOVERED[i].id \in Range(rq[x].usable_ids)
              /\ LAST_DISCOVERED[i].status = AVAILABLE

(* C5: within one route at most one network call is in flight, a call follows only a
   failed one, at most 2 fallbacks and 3 backend calls are made, and no entry id is
   called twice. *)
C5_SequentialBounded ==
    \A x \in DOMAIN rq :
        LET r == rq[x]
        IN  /\ r.inflight <= 1
            /\ Len(r.calls) <= 1 + max_fallback_attempts
            /\ \A k \in DOMAIN r.calls : k < Len(r.calls) => r.calls[k].result # "ok"
            /\ \A k, l \in DOMAIN r.calls : k # l => r.calls[k].id # r.calls[l].id

(* C6: a fallback call that fails with another error than the rate limit is skipped:
   the candidates are called in ranked order until one succeeds or the bound is
   reached, a success is the route's result, and otherwise the route raises
   RateLimitExceeded. *)
C6_FallbackErrorsSwallowed ==
    \A x \in DOMAIN rq :
        LET r == rq[x]
            n == Len(r.calls)
        IN  (Done(r) /\ PrimaryRateLimit(r))
            => /\ \A k \in 2..n : r.calls[k].id = r.remaining_ids[k - 1]
               /\ IF r.calls[n].result = "ok"
                  THEN r.outcome.kind = "ok" /\ r.outcome.by = r.calls[n].id
                  ELSE /\ r.outcome.kind = "RateLimitExceeded"
                       /\ n = 1 + Min(Len(r.remaining_ids), max_fallback_attempts)

\* a fallback failed with a runtime error and the next candidate answered
C6_Witness ==
    \E x \in DOMAIN rq :
        /\ Done(rq[x]) /\ Len(rq[x].calls) = 3
        /\ rq[x].calls[1].result = "rate" /\ rq[x].calls[2].result = "err"
        /\ rq[x].calls[3].result = "ok" /\ rq[x].outcome.kind = "ok"

(* C7: every listing list_providers returns, and the list the accessors read, has no
   AVAILABLE or ASSUMED entry after a RATE_LIMITED, ERROR or UNAVAILABLE one. *)
C7_ListingsRanked ==
    /\ listing.called => Ranked(listing.items)
    /\ Ranked(EntriesNow)

(* C8: with GEMINI_API_KEY as the only credential, list_providers returns exactly one
   entry, of type gemini, with status ASSUMED or AVAILABLE. *)
C8_SingleGeminiEntry ==
    (env = EnvGemini /\ listing.called)
    => /\ Len(listing.items) = 1
       /\ listing.items[1].provider = "gemini"
       /\ listing.items[1].status \in {ASSUMED, AVAILABLE}

(* C8 as amended: with GEMINI_API_KEY as the only credential, list_providers returns
   one entry per model of the gemini catalog (three), all of type gemini; every
   status is ASSUMED before the first route, and ASSUMED, AVAILABLE or RATE_LIMITED
   afterwards. *)
C8_GeminiEntryPerModel ==
    (env = EnvGemini /\ listing.called)
    => /\ Len(listing.items) = Len(CatalogInit.gemini)
       /\ {listing.items[i].model : i \in DOMAIN listing.items}
              = {CatalogInit.gemini[i][1] : i \in DOMAIN CatalogInit.gemini}
       /\ \A i \in DOMAIN listing.items :
              /\ listing.items[i].provider = "gemini"
              /\ listing.items[i].status \in {ASSUMED, AVAILABLE, RATE_LIMITED}
              /\ routes = 0 => listing.items[i].status = ASSUMED

C8_Witness ==
    /\ env = EnvGemini /\ listing.called /\ Len(listing.items) = 3
    /\ \E i \in DOMAIN listing.items : listing.items[i].status = AVAILABLE

\* what a route without id selects while nothing was discovered yet
FirstUseSelection(e) ==
    LET usable == FallbackProviders(e, CatalogInit)
    IN  IF usable = <<>> THEN "NoProvidersConfigured"
        ELSE IF Len(usable) = 1 THEN "auto"
        ELSE "AmbiguousSelection"

(* C9: a route without id, when exactly one usable entry exists, selects and calls
   that entry; and what a route without id selects is the same before and after a
   discovery cycle filled the snapshot. *)
C9_NoIdSelection ==
    \A x \in DOMAIN rq :
        LET r == rq[x]
        IN  (r.pc # "idle" /\ r.provider_id = NoId)
            => /\ Len(r.usable_ids) = 1 => r.primary_id = r.usable_ids[1]
               /\ (IF r.primary_id # NoId THEN "auto" ELSE r.outcome.kind)
                      = FirstUseSelection(env)

\* the ids of the usable entries, read off the registry directly
UsableIdsNow == {EntriesNow[i].id : i \in {j \in DOMAIN EntriesNow : IsUsable(EntriesNow[j])}}

(* C10: a route without id while more than one usable entry exists raises
   AmbiguousSelection listing every usable id, and calls no backend. *)
C10_AmbiguousSelection ==
    [][\A x \in DOMAIN rq :
          ( /\ routes' = routes + 1
            /\ rq'[x].provider_id = NoId
            /\ Cardinality({j \in DOMAIN EntriesNow : IsUsable(EntriesNow[j])}) > 1 )
          => /\ rq'[x].pc = "done"
             /\ rq'[x].outcome.kind = "AmbiguousSelection"
             /\ Range(rq'[x].outcome.ids) = UsableIdsNow
             /\ rq'[x].calls = <<>> /\ rq'[x].probes = <<>> /\ rq'[x].inflight = 0
             /\ LAST_DISCOVERED' = LAST_DISCOVERED]_vars

C10_Witness ==
    \E x \in DOMAIN rq :
        /\ Done(rq[x]) /\ rq[x].outcome.kind = "AmbiguousSelection"
        /\ Len(rq[x].outcome.ids) > 1 /\ rq[x].calls = <<>>

\* the ids of all entries, read off the registry directly
AllIdsNow == {EntriesNow[i].id : i \in DOMAIN EntriesNow}

SelectionErrors == {"NoProvidersConfigured", "ProviderNotFound", "AmbiguousSelection"}

(* C11: a route with an explicit id that no entry of the all-entries listing has,
   started while some usable entry exists (with none, NoProvidersConfigured comes
   first, see C12), raises ProviderNotFound, and its message lists every id a route
   would accept as an explicit id at that moment (the ids of all entries). *)
C11_UnknownIdListsValidIds ==
    [][\A x \in DOMAIN rq :
          ( /\ routes' = routes + 1
            /\ UsableIdsNow # {}
            /\ rq'[x].provider_id # NoId
            /\ rq'[x].provider_id \notin AllIdsNow )
          => /\ rq'[x].pc = "done"
             /\ rq'[x].outcome.kind = "ProviderNotFound"
             /\ AllIdsNow \subseteq Range(rq'[x].outcome.ids)]_vars

(* C11 as amended: such a route raises ProviderNotFound, and its message lists
   exactly the ids of the usable entries (AVAILABLE or ASSUMED). *)
C11_UnknownIdListsUsableIds ==
    [][\A x \in DOMAIN rq :
          ( /\ routes' = routes + 1
            /\ UsableIdsNow # {}
            /\ rq'[x].provider_id # NoId
            /\ rq'[x].provider_id \notin AllIdsNow )
          => /\ rq'[x].pc = "done"
             /\ rq'[x].outcome.kind = "ProviderNotFound"
             /\ Range(rq'[x].outcome.ids) = UsableIdsNow
             /\ rq'[x].calls = <<>>]_vars

\* the message leaves out the id of an entry that is not usable
C11_Witness ==
    \E x \in DOMAIN rq :
        /\ Done(rq[x]) /\ rq[x].outcome.kind = "ProviderNotFound"
        /\ rq[x].outcome.ids # <<>>
        /\ \E i \in DOMAIN LAST_DISCOVERED :
              /\ LAST_DISCOVERED[i].status = RATE_LIMITED
              /\ LAST_DISCOVERED[i].id \notin Range(rq[x].outcome.ids)

(* C12: a route that ends in NoProvidersConfigured, ProviderNotFound or
   AmbiguousSelection made no probe and no backend call; and a route that starts
   while no usable entry exists raises NoProvidersConfigured. *)
C12_SelectionErrorsBeforeCalls ==
    /\ [](\A x \in DOMAIN rq :
            rq[x].outcome.kind \in SelectionErrors
            => /\ rq[x].pc = "done"
               /\ rq[x].calls = <<>> /\ rq[x].probes = <<>> /\ rq[x].patches = <<>>)
    /\ [][\A x \in DOMAIN rq :
            routes' = routes + 1
            => /\ rq'[x].outcome.kind \in SelectionErrors
                  => (rq'[x].inflight = 0 /\ VERIFIED_MODELS' = VERIFIED_MODELS
                      /\ LAST_DISCOVERED' = LAST_DISCOVERED)
               /\ UsableIdsNow = {} => rq'[x].outcome.kind = "NoProvidersConfigured"]_vars

\* an explicit id was passed while no usable entry existed
C12_Witness ==
    \E x \in DOMAIN rq :
        /\ Done(rq[x]) /\ rq[x].outcome.kind = "NoProvidersConfigured"
        /\ rq[x].provider_id # NoId /\ rq[x].calls = <<>> /\ rq[x].probes = <<>>

\* request r, awaiting the backend call of its primary, found this entry ASSUMED when
\* _call_provider was entered: the object still is, or a probe confirmed it
FirstUse(r) ==
    /\ r.pc = "calling" /\ ~r.fallback
    /\ \/ Deref(r.cur, LAST_DISCOVERED).status = ASSUMED
       \/ \E k \in DOMAIN r.probes : r.probes[k].id = r.primary_id

\* the finished request r used its primary while ASSUMED and the use succeeded
Promoted(r) ==
    /\ Done(r) /\ r.outcome.kind = "ok" /\ r.outcome.by = r.primary_id
    /\ \/ \E k \in DOMAIN r.probes : r.probes[k].id = r.primary_id
       \/ \E k \in DOMAIN r.patches :
              r.patches[k].id = r.primary_id /\ r.patches[k].status = AVAILABLE

StatusOf(entries, id) == {entries[i].status : i \in {j \in DOMAIN entries : entries[j].id = id}}

(* C13: a successful backend call on an entry that was ASSUMED leaves the entry
   AVAILABLE in the snapshot, and the next route with that id starts no probe. *)
C13_FirstUsePromotes ==
    [][\A x \in DOMAIN rq :
          /\ (FirstUse(rq[x]) /\ rq'[x].pc = "done" /\ rq'[x].outcome.kind = "ok")
             => AVAILABLE \in StatusOf(LAST_DISCOVERED', rq[x].primary_id)
          /\ (Promoted(rq[x]) /\ routes' = routes + 1
                /\ rq'[x].provider_id = rq[x].primary_id)
             => (rq'[x].pc = "calling" /\ rq'[x].probes = <<>>)]_vars

\* a second route on a huggingface entry that a probe confirmed goes to the backend
\* call at once
C13_Witness ==
    \E x \in DOMAIN rq :
        /\ routes = 2 /\ rq[x].pc = "calling" /\ rq[x].probes = <<>>
        /\ rq[x].primary_id[1] = "huggingface"
        /\ rq[x].primary_id \in DOMAIN VERIFIED_MODELS
        /\ VERIFIED_MODELS[rq[x].primary_id] = AVAILABLE
        /\ StatusOf(LAST_DISCOVERED, rq[x].primary_id) = {AVAILABLE}

(* C14: once an entry was used while ASSUMED, the listing of the next discovery
   call, forced or not, does not show that entry as ASSUMED again. *)
C14_FirstUseRemembered ==
    \A x \in listing.next :
        (listing.called /\ Promoted(rq[x]))
        => \E i \in DOMAIN listing.items :
              /\ listing.items[i].id = rq[x].primary_id
              /\ listing.items[i].status # ASSUMED

(* C15: when the backend call on an entry that was ASSUMED fails, the entry is left
   UNAVAILABLE, RATE_LIMITED or ERROR in the snapshot, not ASSUMED or AVAILABLE. *)
C15_FailedFirstUsePatched ==
    [][\A x \in DOMAIN rq :
          ( /\ FirstUse(rq[x]) /\ rq[x].calls = <<>>
            /\ Len(rq'[x].calls) = 1 /\ rq'[x].calls[1].result # "ok" )
          => StatusOf(LAST_DISCOVERED', rq[x].primary_id)
                 \subseteq {UNAVAILABLE, RATE_LIMITED, ERROR}]_vars

\* the labels of the entries of the snapshot that are AVAILABLE
AvailableLabels(entries) ==
    {entries[i].label : i \in {j \in DOMAIN entries : entries[j].status = AVAILABLE}}

(* C16: when the probe of an ASSUMED entry fails, the route raises the selection
   error, every model its hint names is an entry that is AVAILABLE at that moment,
   and no backend call was made for the entry. *)
C16_FailedProbeHint ==
    [][\A x \in DOMAIN rq :
          ( /\ rq[x].pc = "probing"
            /\ Len(rq'[x].probes) = Len(rq[x].probes) + 1
            /\ rq'[x].probes[Len(rq'[x].probes)].result # "true" )
          => /\ rq'[x].pc = "done"
             /\ rq'[x].outcome.kind = "VerificationFailed"
             /\ rq'[x].calls = <<>>
             /\ Range(rq'[x].outcome.hint) \subseteq AvailableLabels(LAST_DISCOVERED')]_vars

\* what list_providers answers when it serves the stored snapshot
Stored == [i \in DOMAIN LAST_DISCOVERED |-> ProviderResponse(LAST_DISCOVERED[i])]

\* no request got a probe or a call answered, or a status patched, in this step
NoVerification ==
    /\ VERIFIED_MODELS' = VERIFIED_MODELS
    /\ \A x \in DOMAIN rq :
          /\ rq'[x].probes = rq[x].probes /\ rq'[x].calls = rq[x].calls
          /\ rq'[x].patches = rq[x].patches /\ rq'[x].inflight = rq[x].inflight

(* C17: a discovery call without forced refresh, made less than the TTL after the
   stored snapshot was created, returns the stored snapshot (same entries, status
   and latency) and leaves snapshot and timestamp alone; a call without forced
   refresh that follows another discovery call at once returns what that one
   returned; neither verifies anything. *)
C17_CachedWithinTTL ==
    [][(listing'.called /\ ~listing'.refresh)
       => /\ (LAST_DISCOVERED # <<>> /\ now - LAST_DISCOVERY_TIME < DISCOVERY_CACHE_TTL)
             => /\ listing'.items = Stored
                /\ LAST_DISCOVERED' = LAST_DISCOVERED
                /\ LAST_DISCOVERY_TIME' = LAST_DISCOVERY_TIME
                /\ CANDIDATE_MODELS' = CANDIDATE_MODELS
          /\ listing.called => listing'.items = listing.items
          /\ NoVerification]_vars

\* a snapshot with a patched entry is served again, half a TTL after its creation
C17_Witness ==
    /\ listing.called /\ ~listing.refresh
    /\ LAST_DISCOVERY_TIME > 0 /\ now > LAST_DISCOVERY_TIME
    /\ now - LAST_DISCOVERY_TIME < DISCOVERY_CACHE_TTL
    /\ \E i \in DOMAIN listing.items : listing.items[i].status = RATE_LIMITED

\* the statuses a verification (a probe or a real call) gives an entry; ASSUMED is
\* the status of an entry nothing verified
VerifiedStatuses == {AVAILABLE, UNAVAILABLE, RATE_LIMITED, ERROR}

(* C18: a discovery call with forced refresh returns entries whose status was
   established by a verification: none of them is ASSUMED. *)
C18_RefreshVerifies ==
    (listing.called /\ listing.refresh)
    => \A i \in DOMAIN listing.items : listing.items[i].status \in VerifiedStatuses

\* the status _verify_candidate gives the entry of an id
RememberedStatus(id) ==
    IF id \in DOMAIN VERIFIED_MODELS THEN VERIFIED_MODELS[id] ELSE ASSUMED

(* C18 as amended: a discovery call with forced refresh never serves the stored
   snapshot: it builds every entry anew, with the status verify-on-first-use
   remembered for its id, or ASSUMED; it runs no probe; and when it built any entry,
   what it returns replaces the stored snapshot and its timestamp. *)
C18_RefreshRebuilds ==
    [][(listing'.called /\ listing'.refresh)
       => /\ \A i \in DOMAIN listing'.items :
                listing'.items[i].status = RememberedStatus(listing'.items[i].id)
          /\ NoVerification
          /\ listing'.items # <<>>
             => /\ LAST_DISCOVERY_TIME' = now
                /\ listing'.items = [i \in DOMAIN LAST_DISCOVERED' |->
                                        ProviderResponse(LAST_DISCOVERED'[i])]]_vars

\* a forced refresh, half a TTL after the snapshot was created, returned remembered
\* and ASSUMED statuses
C18_Witness ==
    /\ listing.called /\ listing.refresh
    /\ LAST_DISCOVERY_TIME = now /\ now > StartTime
    /\ \E i \in DOMAIN listing.items : listing.items[i].status = AVAILABLE
    /\ \E i \in DOMAIN listing.items : listing.items[i].status = ASSUMED

\* what get_all_providers returns, as list_providers would show it
Visible(entries) == [i \in DOMAIN entries |-> ProviderResponse(entries[i])]

(* C19: after a discovery call that did not serve the cache, the accessors return
   exactly the entries that call returned. *)
C19_CycleSupersedes ==
    [][( /\ listing'.called
         /\ ~CacheFresh(listing'.refresh, LAST_DISCOVERED, now, LAST_DISCOVERY_TIME) )
       => listing'.items = Visible(EntriesNow')]_vars

\* entry q is entry p but for status and error detail
SameButStatus(p, q) ==
    [q EXCEPT !.status = p.status, !.error_message = p.error_message] = p

(* C20: a step of the router that issues a status patch for an id changes, in the
   first entry of the snapshot with that id, only status and error detail, gives it
   the patched status, and leaves every other entry, the length of the snapshot, its
   timestamp and the remembered verifications alone, with no probe; a patch for an
   id the snapshot does not hold changes nothing and reports failure. *)
C20_PatchFrame ==
    [][\A x \in DOMAIN rq :
          ( /\ rq[x].pc = "calling"
            /\ Len(rq'[x].patches) = Len(rq[x].patches) + 1 )
          => LET patch == rq'[x].patches[Len(rq'[x].patches)]
                 k == FirstWithId(LAST_DISCOVERED, patch.id)
             IN  /\ LAST_DISCOVERY_TIME' = LAST_DISCOVERY_TIME
                 /\ VERIFIED_MODELS' = VERIFIED_MODELS
                 /\ rq'[x].probes = rq[x].probes
                 /\ DOMAIN LAST_DISCOVERED' = DOMAIN LAST_DISCOVERED
                 /\ patch.found = (k # 0)
                 /\ k = 0 => LAST_DISCOVERED' = LAST_DISCOVERED
                 /\ \A i \in DOMAIN LAST_DISCOVERED :
                       IF i = k
                       THEN /\ LAST_DISCOVERED'[i].status = patch.status
                            /\ SameButStatus(LAST_DISCOVERED[i], LAST_DISCOVERED'[i])
                       ELSE LAST_DISCOVERED'[i] = LAST_DISCOVERED[i]]_vars

\* a patch found its entry, the first of the snapshot, and left the others ASSUMED
C20_Witness ==
    \E x \in DOMAIN rq :
        /\ rq[x].patches # <<>> /\ rq[x].patches[1].found
        /\ rq[x].patches[1].status = RATE_LIMITED
        /\ LAST_DISCOVERED # <<>>
        /\ LAST_DISCOVERED[1].id = rq[x].patches[1].id
        /\ LAST_DISCOVERED[1].status = RATE_LIMITED
        /\ \E i \in DOMAIN LAST_DISCOVERED : LAST_DISCOVERED[i].status = ASSUMED

(* C21: for every credential set and every configured override model, the ids of the
   entries of a discovery snapshot are pairwise distinct. *)
C21_IdsDistinct ==
    \A i, j \in DOMAIN LAST_DISCOVERED :
        i # j => LAST_DISCOVERED[i].id # LAST_DISCOVERED[j].id

\* the values _is_placeholder is to reject: empty, shorter than 8 characters, or of
\* a placeholder pattern
RejectedValues == {"", "short", "YOUR_API_KEY_HERE", "your_api_key_here",
                   "test_api_key_for_testing"}

\* the credentials of the entries a request holds
HeldKeys(r) == {Deref(r.providers[i], LAST_DISCOVERED).api_key : i \in DOMAIN r.providers}

(* C22: a credential whose value is empty, shorter than 8 characters or a placeholder
   is the credential of no registered entry: of none in the discovery snapshot, of
   none in the list the accessor builds before any discovery, of none a request
   works with; and a listing over an environment holding such a value is answered
   with the entries of the other credentials. *)
C22_RejectedNeverRegistered ==
    /\ \A i \in DOMAIN LAST_DISCOVERED : LAST_DISCOVERED[i].api_key \notin RejectedValues
    /\ LET fallback == FallbackProviders(env, CANDIDATE_MODELS)
       IN  \A i \in DOMAIN fallback : fallback[i].api_key \notin RejectedValues
    /\ \A x \in DOMAIN rq : HeldKeys(rq[x]) \cap RejectedValues = {}
    /\ listing.called
       => \A k \in DOMAIN env :
             env[k][2] \in RejectedValues
             => Len(listing.items) \in {0, Len(CANDIDATE_MODELS["gemini"])}

\* a listing over an environment with a short key and a real token showed entries,
\* all of the token
C22_Witness ==
    /\ listing.called
    /\ env = << <<"GEMINI_API_KEY", "short">>, <<"GEMINI_TOKEN", "validlongkeyvalue123">> >>
    /\ LAST_DISCOVERED # <<>>
    /\ \A i \in DOMAIN LAST_DISCOVERED : LAST_DISCOVERED[i].api_key = "validlongkeyvalue123"

\* the positions of env whose value is a real secret and whose name is one of names
SecretsNamed(names) ==
    {k \in DOMAIN env : env[k][2] \notin RejectedValues /\ env[k][1] \in names}

(* C23: the credential scan registers a key named <PREFIX>_API_KEY_<n> under slot n
   and a key without suffix, or of the <PREFIX>_TOKEN form, under slot 1; its result
   is sorted ascending by slot, holds each slot at most once, and of two keys of one
   slot holds the one seen first. *)
C23_SlotsByName ==
    LET keys == ScanEnvForKeys(env, <<"GEMINI">>)
        slot1 == SecretsNamed({"GEMINI_API_KEY", "GEMINI_TOKEN"})
        slot2 == SecretsNamed({"GEMINI_API_KEY_2"})
    IN  /\ \A k \in slot2 : <<2, env[k][2]>> \in Range(keys)
        /\ slot1 # {}
           => <<1, env[CHOOSE k \in slot1 : \A l \in slot1 : k <= l][2]>> \in Range(keys)
        /\ \A i, j \in DOMAIN keys : i < j => keys[i][1] < keys[j][1]
        /\ listing.called
           => \A k \in slot2 :
                 \E i \in DOMAIN LAST_DISCOVERED :
                    /\ LAST_DISCOVERED[i].id[2] = 2
                    /\ LAST_DISCOVERED[i].api_key = env[k][2]

\* this step is a list_providers call whose discover_providers ran a cycle
CycleRuns ==
    /\ listing'.called
    /\ ~CacheFresh(listing'.refresh, LAST_DISCOVERED, now, LAST_DISCOVERY_TIME)

(* C24: a discovery cycle issues no network call: no probe and no backend call is
   started or answered by it; every entry it builds has the status recorded for its
   id in the process-lifetime map of verified models, or ASSUMED when none is
   recorded, and the latency estimate of its model in the static table, or the
   default when the table has none. *)
C24_LazyCycle ==
    [][CycleRuns
       => /\ NoVerification
          /\ \A i \in DOMAIN listing'.items :
                LET item == listing'.items[i]
                IN  /\ item.status = RememberedStatus(item.id)
                    /\ item.latency_ms = EstimatedLatency(item.model)
                    /\ item.latency_ms # NoLatency]_vars

\* a cycle built an entry with a remembered failure and an ASSUMED entry of the
\* override model, which the latency table does not know
C24_Witness ==
    /\ listing.called
    /\ \E i \in DOMAIN listing.items :
          /\ listing.items[i].status = UNAVAILABLE
          /\ listing.items[i].error_message = "Failed during previous use"
    /\ \E i \in DOMAIN listing.items :
          /\ listing.items[i].status = ASSUMED
          /\ listing.items[i].model = "unsloth/Llama-3.1-8B-Instruct"
          /\ listing.items[i].latency_ms = DefaultLatency

(* C25: a verification task that raises an unexpected exception does not abort the
   discovery batch: the cycle still returns an entry for every other (credential,
   candidate) pair, and it returns one for the failing pair too, of status ERROR; so
   a cycle returns exactly one entry per task. *)
C25_FailedTaskRecorded ==
    [][CycleRuns
       => LET tasks == BuildTasks(env, GetConfiguredKeys(env), 1, CANDIDATE_MODELS,
                                  VERIFIED_MODELS).tasks
          IN  /\ Len(listing'.items) = Len(tasks)
              /\ \A k \in DOMAIN tasks :
                    \E i \in DOMAIN listing'.items :
                       /\ listing'.items[i].id = tasks[k].id
                       /\ listing'.items[i].status \in {tasks[k].status, ERROR}]_vars

\* request x got the answer resp to its probe in this step
ProbeAnswered(x, resp) ==
    /\ Len(rq'[x].probes) = Len(rq[x].probes) + 1
    /\ rq'[x].probes[Len(rq'[x].probes)].resp = resp

\* the entries of the snapshot after this step that have the id
EntriesAfter(id) ==
    {LAST_DISCOVERED'[i] : i \in {j \in DOMAIN LAST_DISCOVERED' : LAST_DISCOVERED'[j].id = id}}

(* C26: a probe that exceeds the per-probe timeout of 15 s classifies its entry as
   ERROR, with a detail saying that the verification timed out after 15.0 s, and
   records ERROR for the id of the entry; the probe is not retried: the verification
   ends with this one probe and the request fails without a backend call. *)
C26_ProbeTimeout ==
    [][\A x \in DOMAIN rq :
          ProbeAnswered(x, "timeout")
          => LET id == rq'[x].probes[Len(rq'[x].probes)].id
             IN  /\ id \in DOMAIN VERIFIED_MODELS' /\ VERIFIED_MODELS'[id] = ERROR
                 /\ \E p \in EntriesAfter(id) :
                       /\ p.status = ERROR
                       /\ p.error_message = "Verification timed out after 15.0s"
                 /\ rq'[x].pc = "done" /\ rq'[x].inflight = 0
                 /\ rq'[x].outcome.kind = "VerificationFailed"
                 /\ rq'[x].calls = rq[x].calls]_vars

\* a request ended on a timed-out probe while the snapshot shows the entry as ERROR
C26_Witness ==
    \E x \in DOMAIN rq :
        /\ Done(rq[x]) /\ Len(rq[x].probes) = 1
        /\ rq[x].probes[1].resp = "timeout"
        /\ rq[x].outcome.kind = "VerificationFailed"
        /\ \E i \in DOMAIN LAST_DISCOVERED :
              /\ LAST_DISCOVERED[i].id = rq[x].probes[1].id
              /\ LAST_DISCOVERED[i].status = ERROR

(* C27: a probe in which a step hits a rate limit (HTTP 429, or an error naming a rate
   or a quota) classifies its entry as RATE_LIMITED, and as no other failure status,
   whatever the provider type: RATE_LIMITED is what is recorded for the id and what
   the snapshot shows for the entry. *)
C27_ProbeRateLimited ==
    [][\A x \in DOMAIN rq :
          ProbeAnswered(x, "429")
          => LET id == rq'[x].probes[Len(rq'[x].probes)].id
             IN  /\ id \in DOMAIN VERIFIED_MODELS' /\ VERIFIED_MODELS'[id] = RATE_LIMITED
                 /\ \E p \in EntriesAfter(id) : p.status = RATE_LIMITED]_vars

(* C28: during a discovery batch at most 5 probes are in flight at any moment, counted
   over all provider types and credentials of the batch; the batch starts and ends no
   probe of a request either. *)
C28_BatchProbesBounded ==
    [][CycleRuns
       => /\ Cardinality(ProbingTasks(BuildTasks(env, GetConfiguredKeys(env), 1,
                                                 CANDIDATE_MODELS,
                                                 VERIFIED_MODELS).tasks))
             <= CONCURRENCY_LIMIT
          /\ \A x \in DOMAIN rq :
                rq'[x].inflight = rq[x].inflight /\ rq'[x].pc = rq[x].pc]_vars

\* a batch of more tasks than the limit ran, of two provider types, while a request
\* was waiting for its probe
C28_Witness ==
    /\ listing.called /\ listing.refresh
    /\ Len(listing.items) > CONCURRENCY_LIMIT
    /\ \E i, j \in DOMAIN listing.items :
          listing.items[i].provider # listing.items[j].provider
    /\ \E x \in DOMAIN rq : rq[x].pc = "probing"

\* the error details that belong to a status: those the code stores together with it
DetailsOf(status) ==
    CASE status = RATE_LIMITED -> {"Rate limit exceeded during analysis",
                                   "Rate limit exceeded during fallback",
                                   "Rate limit exceeded",
                                   "Rate limit hit during previous use"}
      [] status = UNAVAILABLE -> {None, "Failed during previous use"}
      [] status = ERROR -> {None, "Verification timed out after 15.0s"}
      [] OTHER -> {None}

\* request x issued a status patch in this step
PatchIssued(x) == Len(rq'[x].patches) = Len(rq[x].patches) + 1

(* C29: a status patch is atomic for every reader: no entry of the snapshot, and so no
   entry a listing shows, ever has a status together with the error detail of the
   status it had before; and a patch that a request already in flight issues after a
   discovery cycle replaced the snapshot is applied to the entry of its id in the new
   snapshot. *)
C29_PatchAtomic ==
    [][/\ \A i \in DOMAIN LAST_DISCOVERED' :
             LAST_DISCOVERED'[i].error_message \in DetailsOf(LAST_DISCOVERED'[i].status)
       /\ \A i \in DOMAIN listing'.items :
             listing'.items[i].error_message \in DetailsOf(listing'.items[i].status)
       /\ \A x \in DOMAIN rq :
             (PatchIssued(x) /\ LAST_DISCOVERED # <<>>)
             => LET patch == rq'[x].patches[Len(rq'[x].patches)]
                IN  /\ patch.found
                    /\ \E p \in EntriesAfter(patch.id) : p.status = patch.status]_vars

\* another secret in the place of a secret; any other value as it is
OtherSecret(value) ==
    CASE value = "validlongkeyvalue123" -> "anothervalidkey789"
      [] value = "anothervalidkey789" -> "validlongkeyvalue123"
      [] OTHER -> value

\* the configuration that differs from e in the values of its secrets only
Resecreted(e) == [k \in DOMAIN e |-> <<e[k][1], OtherSecret(e[k][2])>>]

SecretsOf(e) == {e[k][2] : k \in DOMAIN e} \ RejectedValues

(* C30: what listProviders returns exposes no credential: no public entry view has a
   credential field or a secret of the configuration as its label, model or error
   detail, and the sequence of views is the one the configuration that differs only
   in the values of its secrets gets, from a discovery cycle as from the stored
   snapshot. *)
C30_ListingHidesSecrets ==
    listing.called
    => /\ \A i \in DOMAIN listing.items :
             LET item == listing.items[i]
             IN  /\ "api_key" \notin DOMAIN item
                 /\ {item.label[1], item.model, item.error_message, item.speed}
                    \cap SecretsOf(env) = {}
       /\ listing.refresh
          => listing.items =
                Visible(DiscoverProviders(TRUE, Resecreted(env), now, CANDIDATE_MODELS,
                                          <<>>, 0, VERIFIED_MODELS).result)
       /\ listing.items =
             Visible([i \in DOMAIN LAST_DISCOVERED |->
                        [LAST_DISCOVERED[i] EXCEPT !.api_key = OtherSecret(@)]])

\* a forced listing over a configuration with a secret returned entries, after a
\* request had patched a status
C30_Witness ==
    /\ listing.called /\ listing.refresh
    /\ listing.items # <<>>
    /\ Resecreted(env) # env
    /\ \E x \in DOMAIN rq : rq[x].patches # <<>>

(* C31: the speed category of an entry is Fast when its latency value is below 1000 ms,
   Medium when it is at least 1000 and below 3000 ms, and Slow otherwise, whatever the
   name of its model; a category of the model-name heuristic that the thresholds do
   not give (Reasoning, Standard) appears only where there is no latency value. *)
C31_SpeedThresholds ==
    LET ByThresholds(latency_ms) ==
            IF latency_ms < 1000 THEN "Fast"
            ELSE IF latency_ms >= 1000 /\ latency_ms < 3000 THEN "Medium"
            ELSE "Slow"
    IN
    /\ \A x \in DOMAIN inv :
          (inv[x].speed # None /\ inv[x].latency_ms # NoLatency)
          => inv[x].speed = ByThresholds(inv[x].latency_ms)
    /\ \A x \in DOMAIN inv :
          inv[x].speed \in {"Reasoning", "Standard"} => inv[x].latency_ms = NoLatency
    /\ \A i \in DOMAIN LAST_DISCOVERED :
          LAST_DISCOVERED[i].latency_ms # NoLatency
          => LAST_DISCOVERED[i].speed = ByThresholds(LAST_DISCOVERED[i].latency_ms)

\* a reasoning model with a latency of exactly 3000 ms was classified Slow
C31_Witness ==
    \E x \in DOMAIN inv :
        /\ inv[x].model_name = "o1-mini" /\ inv[x].latency_ms = 3000
        /\ inv[x].speed = "Slow"

(* C33: truncate_text returns the text unchanged with flag False whenever the text has
   at most max_length characters (exactly max_length and the empty text included), and
   otherwise the first max_length characters followed by the truncation marker, with
   flag True. *)
C33_TruncateText ==
    LET CutAt(out, text, n) ==
            /\ Len(out) = n + Len(TRUNCATION_MARKER)
            /\ \A i \in 1..n : out[i] = text[i]
            /\ \A j \in 1..Len(TRUNCATION_MARKER) : out[n + j] = TRUNCATION_MARKER[j]
    IN
    \A x \in DOMAIN inv :
        inv[x].pc = "returned"
        => IF Len(inv[x].text) <= inv[x].max_length
           THEN inv[x].out = inv[x].text /\ inv[x].flag = FALSE
           ELSE CutAt(inv[x].out, inv[x].text, inv[x].max_length) /\ inv[x].flag = TRUE

\* one text of exactly max_length characters came back unchanged and a longer one was
\* cut
C33_Witness ==
    /\ inv["t1"].pc = "returned" /\ inv["t1"].max_length = 2
    /\ Len(inv["t1"].text) = 2 /\ inv["t1"].out = inv["t1"].text /\ ~inv["t1"].flag
    /\ inv["t2"].pc = "returned" /\ inv["t2"].max_length = 2
    /\ Len(inv["t2"].text) = 3 /\ Len(inv["t2"].out) = 17 /\ inv["t2"].flag

(* C37: fetch_issue makes at most 3 attempts; every attempt after the first follows an
   answer that was a failure other than 404 and 403; a 404 or 403 answer ends the call
   at once with the corresponding error, no attempt following it, so that a call whose
   first answer is 404 or 403 fails after exactly one attempt. *)
C37_FetchIssueAttempts ==
    \A x \in DOMAIN inv :
        /\ inv[x].attempts <= 3
        /\ Len(inv[x].responses) <= inv[x].attempts
        /\ \A k \in DOMAIN inv[x].responses :
              k < inv[x].attempts => inv[x].responses[k] \notin {"200", "404", "403"}
        /\ \A k \in DOMAIN inv[x].responses :
              inv[x].responses[k] \in {"404", "403"}
              => /\ inv[x].pc = "raised"
                 /\ inv[x].error = IF inv[x].responses[k] = "404" THEN "ValueError"
                                  ELSE "RuntimeError"
                 /\ inv[x].attempts = k
                 /\ Len(inv[x].responses) = k

\* one call failed on a first answer of 403 after one attempt, another gave up after
\* three answers of 500
C37_Witness ==
    /\ inv["f1"].responses = <<"403">> /\ inv["f1"].pc = "raised"
    /\ inv["f1"].attempts = 1 /\ inv["f1"].error = "RuntimeError"
    /\ inv["f2"].responses = <<"500", "500", "500">> /\ inv["f2"].pc = "raised"
    /\ inv["f2"].attempts = 3

(* C38: run_gemini starts at most two generation calls; it returns as soon as a call
   succeeds, starts the second call only after the first failed, and raises only when
   the second call failed too: the rate-limit error when the text of the second failure
   names a 429 or a quota condition, a RuntimeError otherwise, whatever the first
   failure was. *)
C38_GeminiTwoCalls ==
    \A x \in DOMAIN inv :
        LET g == inv[x].generations IN
        /\ inv[x].started <= 2
        /\ Len(g) <= inv[x].started
        /\ inv[x].started = 2 => (Len(g) >= 1 /\ g[1] # "ok")
        /\ inv[x].pc = "returned" <=> (Len(g) >= 1 /\ g[Len(g)] = "ok")
        /\ inv[x].pc = "raised" <=> (Len(g) = 2 /\ g[2] # "ok")
        /\ inv[x].pc = "raised"
           => inv[x].error = IF g[2] \in {"429", "ResourceExhausted",
                                           "invalid-quoting-429"}
                             THEN "LLMRateLimitError" ELSE "RuntimeError"

\* after a first failure of 429 the retry failed otherwise and a RuntimeError was
\* raised; after a first failure of another kind the retry met a 429 and the
\* rate-limit error was raised
C38_Witness ==
    /\ inv["g1"].generations = <<"429", "error">> /\ inv["g1"].error = "RuntimeError"
    /\ inv["g2"].generations = <<"error", "429">>
    /\ inv["g2"].error = "LLMRateLimitError"

(* C36: whatever the provider type of the entry called, a call that the vendor answers
   with an HTTP 429 is reported to the router as the rate-limit error, never as the
   generic failure. *)
C36_RateLimitTyped ==
    \A x \in DOMAIN rq : \A k \in DOMAIN rq[x].calls :
        rq[x].calls[k].resp = "429" => rq[x].calls[k].result = "rate"

(* C40: the entries of a snapshot built by a discovery cycle are of models of the
   static catalog of their provider type or of the override model configured when the
   cycle runs; an override of an earlier cycle that is no longer configured produces
   no entry. *)
C40_CandidatesOfTheCycle ==
    [][CycleRuns
       => \A i \in DOMAIN LAST_DISCOVERED' :
             LET ptype == LAST_DISCOVERED'[i].provider
                 static == {CatalogInit[ptype][k][1] : k \in DOMAIN CatalogInit[ptype]}
             IN  \/ LAST_DISCOVERED'[i].model \in static
                 \/ LAST_DISCOVERED'[i].model = EnvModel(env, ptype)]_vars

(* C39: an entry that a request patched to RATE_LIMITED keeps that status in every step
   that is not a discovery cycle replacing the snapshot: no request in flight on the
   entry, in its probe or in its backend call, sets it to AVAILABLE or to any other
   status. *)
C39_RateLimitedKept ==
    [][~CycleRuns
       => \A i \in DOMAIN LAST_DISCOVERED :
             LAST_DISCOVERED[i].status = RATE_LIMITED
             => /\ i \in DOMAIN LAST_DISCOVERED'
                /\ LAST_DISCOVERED'[i].id = LAST_DISCOVERED[i].id
                /\ LAST_DISCOVERED'[i].status = RATE_LIMITED]_vars

(* C32: a failed POST /analyze is answered with 400 for an invalid GitHub URL, before
   any fetch and any call of the router; with 404 for an issue that was not found; with
   403 for a rate limit of GitHub; with 400 for a provider selection error; with 429
   for a rate limit of the LLM; with 500 for any other error; and it returns no
   analysis. *)
C32_FailureStatuses ==
    LET StatusOfCause(cause) ==
            CASE cause = "InvalidUrl" -> 400
              [] cause = "ValueError" -> 404
              [] cause = "RuntimeError" -> 403
              [] cause \in {"NoProvidersConfigured", "ProviderNotFound",
                            "AmbiguousSelection", "VerificationFailed"} -> 400
              [] cause = "RateLimitExceeded" -> 429
              [] OTHER -> 500
    IN
    \A a \in DOMAIN api :
        (api[a].pc = "done" /\ api[a].cause # None)
        => /\ api[a].status = StatusOfCause(api[a].cause)
           /\ api[a].analysis = IdleApi.analysis
           /\ api[a].cause = "InvalidUrl" => (api[a].fetches = 0 /\ ~api[a].routed)

(* C34: the provider id in the meta of a successful response is the id of the entry
   whose backend call returned the analysis, also after a fallback from a rate-limited
   primary, and the response is stored under the key of that id. *)
C34_MetaNamesProducer ==
    /\ \A a \in DOMAIN api :
          (api[a].pc = "done" /\ api[a].status = 200)
          => api[a].meta_provider_id = api[a].analysis.by
    /\ \A key \in DOMAIN analysis_cache :
          /\ key[3] = analysis_cache[key].analysis.by
          /\ analysis_cache[key].meta_provider_id = analysis_cache[key].analysis.by

(* C35: a request that succeeds through the router returns cached = false and stores
   its response under its key; a request that arrives less than 900 s after a response
   was stored under its key returns the stored analysis with cached = true in the same
   step, with no fetch from GitHub and no step of the router; a request that fails
   leaves the cache as it is; a hit leaves the cache as it is, and every stored
   response has cached = false. *)
C35_AnalysisCache ==
    [][\A a \in DOMAIN api :
          /\ (api'[a].pc = "done" /\ api'[a].status = 200 /\ api'[a].routed)
             => /\ ~api'[a].cached
                /\ api'[a].key \in DOMAIN analysis_cache'
                /\ analysis_cache'[api'[a].key].analysis = api'[a].analysis
          /\ ( /\ api'[a].n = api[a].n + 1
               /\ api'[a].key \in DOMAIN analysis_cache
               /\ now - analysis_cache[api'[a].key].stored_at < 900 )
             => /\ api'[a].pc = "done" /\ api'[a].status = 200 /\ api'[a].cached
                /\ api'[a].analysis = analysis_cache[api'[a].key].analysis
                /\ api'[a].fetches = 0 /\ ~api'[a].routed
                /\ rq' = rq /\ routes' = routes
                /\ analysis_cache' = analysis_cache
          /\ (api'[a].pc = "done" /\ api'[a].status # 200)
             => analysis_cache' = analysis_cache
          /\ \A key \in DOMAIN analysis_cache' : ~analysis_cache'[key].cached]_vars

\* the second request for a key was served from the cache, which holds the response
\* with cached = false
C35_Witness ==
    \E a \in DOMAIN api :
        /\ api[a].pc = "done" /\ api[a].n = 2 /\ api[a].status = 200 /\ api[a].cached
        /\ api[a].fetches = 0
        /\ api[a].key \in DOMAIN analysis_cache
        /\ ~analysis_cache[api[a].key].cached
        /\ analysis_cache[api[a].key].analysis = api[a].analysis

====
